---- MODULE Spec2Model ----
(***************************************************************************)
(* A model of four parts of azure-dev:                                     *)
(*                                                                         *)
(*  - the deployment resource resolver                                     *)
(*    (cli/azd/pkg/infra/azure_resource_manager.go): the operations of a   *)
(*    subscription deployment and of the deployments nested in it;         *)
(*  - the Azure DevOps project creation (createProject and                 *)
(*    getAzdoProjectFromNew of the azdo package);                          *)
(*  - a pipeline configuration run on Azure DevOps: the credentials, the   *)
(*    repository, the project, the service connection, the pipeline and    *)
(*    the branch policy;                                                   *)
(*  - the clean command of the repository generator                        *)
(*    (generators/repo/src/commands/clean.ts): the deletion of a branch    *)
(*    from each remote of a manifest.                                      *)
(*                                                                         *)
(* A Go string is a sequence of one-character strings, so that             *)
(* strings.TrimSpace is computed and not assumed.                          *)
(***************************************************************************)
EXTENDS Integers, Sequences, FiniteSets, TLC

VARIABLES
    \* the resolver
    azure,      \* the remote state the azCli calls read
    last,       \* the most recent resolver call: which one, its result, the remote calls it issued
    prev,       \* the resolver call before it
    \* getAzdoProjectFromNew and the createProject call it is in
    pc,             \* where the program is
    name,           \* the name the last prompt returned
    count,          \* createProject's count
    projectCreated, \* createProject's projectCreated
    created,        \* what the createProject call returned
    result,         \* what getAzdoProjectFromNew returned
    projects,       \* the remote service's projects, as GetProjects lists them
    cancelled,      \* the caller's context is done
    \* what has happened so far
    prompts,        \* prompts answered
    attempts,       \* what each createProject call was given and returned
    polls,          \* GetOperation calls of this createProject call
    succeededPoll,  \* the first of them that reported "succeeded", 0 for none
    lookups,        \* getAzdoProjectByName calls of this createProject call
    \* a configuration run
    state,           \* the configurator's state
    at,              \* where the run is within the provider's calls
    callRet,         \* the error the last provider call returned
    osEnv,           \* the process environment
    envValues,       \* env.Values
    envFile,         \* the lines of the environment's file
    remoteUrl,       \* the git remote's URL
    details,         \* what gitRepoDetails returned
    projectRef,      \* the project's name and id, as resolved
    endpoint,        \* the id of the endpoint CreateServiceEndpoint returned
    buildDefinition, \* what createPipeline returned
    service,         \* the remote service's endpoints, definitions and policies
    logged,          \* the messages logged
    \* what has happened so far in the run
    writes,          \* the saveEnvironmentConfig calls, in order
    asked,           \* console prompts issued
    checks,          \* preConfigureCheck calls that returned no error
    remoteCalls,     \* the calls to the remote service, in order
    \* the clean command
    remotes,          \* manifest.repo.remotes
    failOnCleanError, \* options.failOnCleanError
    execPc,           \* where execute is
    nextRemote,       \* the index of the remote forEach calls back next
    tasks,            \* the forEach callbacks, one for each remote
    outputDir,        \* the directory at outputPath
    console,          \* what was written to the console, in order
    executePromise,   \* the promise execute returned
    unhandled,        \* the callbacks whose promise was rejected
    exited            \* the process ended on an unhandled rejection

armVars == <<azure, last, prev>>

projVars ==
    <<pc, name, count, projectCreated, created, result, projects, cancelled,
      prompts, attempts, polls, succeededPoll, lookups>>

cfgVars ==
    <<state, at, callRet, osEnv, envValues, envFile, remoteUrl, details,
      projectRef, endpoint, buildDefinition, service, logged, writes, asked,
      checks, remoteCalls>>

cleanVars ==
    <<remotes, failOnCleanError, execPc, nextRemote, tasks, outputDir, console,
      executePromise, unhandled, exited>>

vars == <<armVars, projVars, cfgVars, cleanVars>>

----------------------------------------------------------------------------
(* Strings *)

\* The white space strings.TrimSpace strips: the runes unicode.IsSpace
\* holds of.  A rune that has no escape here is written as its code point.
Whitespace ==
    {" ", "\t", "\n", "\r", "\f", "U+000B", "U+0085", "U+00A0", "U+1680",
     "U+2000", "U+2001", "U+2002", "U+2003", "U+2004", "U+2005", "U+2006",
     "U+2007", "U+2008", "U+2009", "U+200A", "U+2028", "U+2029", "U+202F",
     "U+205F", "U+3000"}

RECURSIVE TrimLeft(_)
TrimLeft(s) ==
    IF s # <<>> /\ Head(s) \in Whitespace THEN TrimLeft(Tail(s)) ELSE s

RECURSIVE TrimRight(_)
TrimRight(s) ==
    IF s # <<>> /\ s[Len(s)] \in Whitespace
    THEN TrimRight(SubSeq(s, 1, Len(s) - 1))
    ELSE s

\* strings.TrimSpace
TrimSpace(s) == TrimRight(TrimLeft(s))

EmptyString == <<>>

----------------------------------------------------------------------------
(* Resource types and names.  The repository's two resource type constants *)
(* are abbreviated; only their being distinct and non-blank matters.       *)

AzureResourceTypeResourceGroup == <<"R", "G">>
AzureResourceTypeDeployment == <<"D", "E", "P">>
StorageAccountType == <<"S", "T">>
KeyVaultType == <<"K", "V">>
BlankType == <<"\f", "U+00A0">>

RgApp == <<"r", "g", "-", "a", "p", "p">>
RgOther == <<"r", "g", "2">>
BlankName == <<" ", "\t", "\f">>
D1Child == <<"D", "1", "-", "c">>
D1Grandchild == <<"D", "1", "-", "g">>
StorageName == <<"s", "t">>
VaultName == <<"k", "v">>

\* tools.AzCliResourceOperation, the fields the resolver reads
Operation(resourceType, resourceName, action) ==
    [ResourceType |-> resourceType, ResourceName |-> resourceName,
     ProvisioningOperation |-> action]

OpRgApp == Operation(AzureResourceTypeResourceGroup, RgApp, "Create")
OpRgBlank == Operation(AzureResourceTypeResourceGroup, BlankName, "Create")
OpRgOther == Operation(AzureResourceTypeResourceGroup, RgOther, "Create")
OpDeployChild == Operation(AzureResourceTypeDeployment, D1Child, "Create")
OpDeployGrandchild == Operation(AzureResourceTypeDeployment, D1Grandchild, "Create")
OpDeployGrandchildRead == Operation(AzureResourceTypeDeployment, D1Grandchild, "Read")
OpStorageCreate == Operation(StorageAccountType, StorageName, "Create")
OpStorageRead == Operation(StorageAccountType, StorageName, "Read")
OpVaultCreate == Operation(KeyVaultType, VaultName, "Create")
OpVaultRead == Operation(KeyVaultType, VaultName, "Read")
OpBlankTypeCreate == Operation(BlankType, VaultName, "Create")
OpNoTypeCreate == Operation(EmptyString, EmptyString, "Create")

\* a dependency target, the fields GetResourceGroupsForDeployment reads
Dependent(resourceType, resourceName) ==
    [ResourceType |-> resourceType, ResourceName |-> resourceName]

----------------------------------------------------------------------------
(* The remote service, as the three azCli read calls see it.               *)
(*   subErr, subOps      ListSubscriptionDeploymentOperations              *)
(*   rgDeployments       ListResourceGroupDeploymentOperations: a function *)
(*                       on the <<resource group, deployment>> pairs that  *)
(*                       exist; listing any other pair fails               *)
(*   depErr, dependencies  GetSubscriptionDeployment: the DependsOn lists  *)
(*                       of Properties.Dependencies                        *)

ListSubscriptionDeploymentOperations(az) ==
    IF az.subErr THEN [err |-> TRUE, ops |-> <<>>]
    ELSE [err |-> FALSE, ops |-> az.subOps]

ListResourceGroupDeploymentOperations(az, resourceGroupName, deploymentName) ==
    IF <<resourceGroupName, deploymentName>> \in DOMAIN az.rgDeployments
    THEN [err |-> FALSE, ops |-> az.rgDeployments[<<resourceGroupName, deploymentName>>]]
    ELSE [err |-> TRUE, ops |-> <<>>]

GetSubscriptionDeployment(az) ==
    IF az.depErr THEN [err |-> TRUE, dependencies |-> <<>>]
    ELSE [err |-> FALSE, dependencies |-> az.dependencies]

\* one entry of the log of remote calls a resolver call issued
RemoteCall(call, resourceGroupName, deploymentName) ==
    [call |-> call, resourceGroupName |-> resourceGroupName,
     deploymentName |-> deploymentName]

----------------------------------------------------------------------------
(* appendDeploymentResourcesRecursive.  st is the state the recursion      *)
(* threads: ops (the resourceOperations accumulator), calls (the remote    *)
(* calls so far) and err (an error is being returned).                     *)

RECURSIVE appendDeploymentResourcesRecursive(_, _, _, _)
RECURSIVE VisitOperations(_, _, _, _, _)

\* line 98: the operation is collected
IsCollected(operation) ==
    /\ operation.ProvisioningOperation = "Create"
    /\ TrimSpace(operation.ResourceType) # EmptyString

\* a test that takes only the deployments being created for nested ones
IsCreatedDeployment(operation) ==
    /\ operation.ResourceType = AzureResourceTypeDeployment
    /\ operation.ProvisioningOperation = "Create"

\* line 93: the operation names a nested deployment
IsNestedDeployment(operation) ==
    operation.ResourceType = AzureResourceTypeDeployment

\* a traversal that collects a deployment's own operations before it expands
\* any of its nested deployments
RECURSIVE ExpandNestedOnly(_, _, _, _, _)
ExpandNestedOnly(az, resourceGroupName, operations, i, st) ==
    IF i > Len(operations) THEN st
    ELSE IF IsNestedDeployment(operations[i])
         THEN LET r == appendDeploymentResourcesRecursive(
                           az, resourceGroupName, operations[i].ResourceName, st)
              IN IF r.err THEN r
                 ELSE ExpandNestedOnly(az, resourceGroupName, operations, i + 1, r)
         ELSE ExpandNestedOnly(az, resourceGroupName, operations, i + 1, st)

VisitOperationsDeferred(az, resourceGroupName, operations, i, st) ==
    LET IsDirect(o) == ~IsNestedDeployment(o) /\ IsCollected(o)
        direct == SelectSeq(SubSeq(operations, i, Len(operations)), IsDirect)
    IN ExpandNestedOnly(az, resourceGroupName, operations, i,
                        [st EXCEPT !.ops = @ \o direct])

\* a traversal that lists a nested deployment and drops what it lists
VisitOperationsFlat(az, resourceGroupName, operations, i, st) ==
    LET IsDirect(o) == ~IsNestedDeployment(o) /\ IsCollected(o)
        direct == SelectSeq(SubSeq(operations, i, Len(operations)), IsDirect)
    IN [st EXCEPT !.ops = @ \o direct]

\* lines 92-101: the loop over the listed operations, from index i on
VisitOperations(az, resourceGroupName, operations, i, st) ==
    IF i > Len(operations) THEN st
    ELSE LET operation == operations[i] IN
         IF IsNestedDeployment(operation)
         THEN LET r == appendDeploymentResourcesRecursive(
                           az, resourceGroupName, operation.ResourceName, st)
              IN IF r.err THEN r
                 ELSE VisitOperations(az, resourceGroupName, operations, i + 1, r)
         ELSE IF IsCollected(operation)
              THEN VisitOperations(az, resourceGroupName, operations, i + 1,
                                   [st EXCEPT !.ops = Append(@, operation)])
              ELSE VisitOperations(az, resourceGroupName, operations, i + 1, st)

\* a listing whose failure ends the visit of the deployment and is not
\* returned
appendDeploymentResourcesSwallowing(az, resourceGroupName, deploymentName, st) ==
    LET listed == ListResourceGroupDeploymentOperations(
                      az, resourceGroupName, deploymentName)
        called == [st EXCEPT !.calls = Append(@,
                      RemoteCall("ListResourceGroupDeploymentOperations",
                                 resourceGroupName, deploymentName))]
    IN IF listed.err THEN called
       ELSE VisitOperations(az, resourceGroupName, listed.ops, 1, called)

\* lines 86-104
appendDeploymentResourcesRecursive(az, resourceGroupName, deploymentName, st) ==
    LET listed == ListResourceGroupDeploymentOperations(
                      az, resourceGroupName, deploymentName)
        called == [st EXCEPT !.calls = Append(@,
                      RemoteCall("ListResourceGroupDeploymentOperations",
                                 resourceGroupName, deploymentName))]
    IN IF listed.err THEN [called EXCEPT !.err = TRUE]
       ELSE VisitOperations(az, resourceGroupName, listed.ops, 1, called)

----------------------------------------------------------------------------
(* GetDeploymentResourceOperations *)

\* the loop of lines 31-36 without its break: the last operation that
\* targets a resource group gives the name
RECURSIVE FindLastResourceGroup(_, _)
FindLastResourceGroup(subOperations, i) ==
    IF i > Len(subOperations) THEN EmptyString
    ELSE LET later == FindLastResourceGroup(subOperations, i + 1)
         IN IF later # EmptyString THEN later
            ELSE IF subOperations[i].ResourceType = AzureResourceTypeResourceGroup
                 THEN subOperations[i].ResourceName
                 ELSE EmptyString

\* lines 28-36: the name of the first operation that targets a resource
\* group; the empty string when there is none
RECURSIVE FindResourceGroup(_, _)
FindResourceGroup(subOperations, i) ==
    IF i > Len(subOperations) THEN EmptyString
    ELSE IF subOperations[i].ResourceType = AzureResourceTypeResourceGroup
         THEN subOperations[i].ResourceName
         ELSE FindResourceGroup(subOperations, i + 1)

\* the comparison without strings.TrimSpace
NoResourceGroupUntrimmed(resourceGroupName) ==
    resourceGroupName = EmptyString

\* line 40: no resource group to scope the nested listings to
NoResourceGroup(resourceGroupName) ==
    TrimSpace(resourceGroupName) = EmptyString

\* line 38: the accumulator every call starts from
NewResourceOperations == <<>>

\* a subscription level loop that collects as the nested loop does
ExpandAndCollectSubscriptionOperations(az, resourceGroupName, subOperations, i, st) ==
    VisitOperations(az, resourceGroupName, subOperations, i, st)

\* lines 46-53: the loop over the subscription level operations
RECURSIVE ExpandSubscriptionOperations(_, _, _, _, _)
ExpandSubscriptionOperations(az, resourceGroupName, subOperations, i, st) ==
    IF i > Len(subOperations) THEN st
    ELSE IF IsNestedDeployment(subOperations[i])
         THEN LET r == appendDeploymentResourcesRecursive(
                           az, resourceGroupName,
                           subOperations[i].ResourceName, st)
              IN IF r.err THEN r
                 ELSE ExpandSubscriptionOperations(
                          az, resourceGroupName, subOperations, i + 1, r)
         ELSE ExpandSubscriptionOperations(
                  az, resourceGroupName, subOperations, i + 1, st)

\* What a resolver call returns: nil (the returned pointer or slice is
\* nil), value (the operations, or the names), err, and calls, the remote
\* calls it issued in order.
Returned(isNil, value, err, calls) ==
    [nil |-> isNil, value |-> value, err |-> err, calls |-> calls]

GetDeploymentResourceOperations(az) ==
    LET listed == ListSubscriptionDeploymentOperations(az)
        calls == <<RemoteCall("ListSubscriptionDeploymentOperations",
                              EmptyString, EmptyString)>>
    IN IF listed.err THEN Returned(TRUE, <<>>, TRUE, calls)
       ELSE LET resourceGroupName == FindResourceGroup(listed.ops, 1)
                start == [ops |-> NewResourceOperations, calls |-> calls,
                          err |-> FALSE]
            IN IF NoResourceGroup(resourceGroupName)
               THEN Returned(FALSE, start.ops, FALSE, calls)
               ELSE LET st == ExpandSubscriptionOperations(
                                  az, resourceGroupName, listed.ops, 1, start)
                    IN IF st.err THEN Returned(TRUE, <<>>, TRUE, st.calls)
                       ELSE Returned(FALSE, st.ops, FALSE, st.calls)

----------------------------------------------------------------------------
(* GetResourceGroupsForDeployment.  The map[string]struct{} is the set of  *)
(* its keys.                                                               *)

\* no test of the dependency target's type
IsAnyDependent(dependent) == TRUE

\* line 71
IsResourceGroupDependent(dependent) ==
    dependent.ResourceType = AzureResourceTypeResourceGroup

\* line 72: resourceGroups[name] = struct{}{}
MapInsert(resourceGroups, k) == resourceGroups \cup {k}

\* lines 70-74
RECURSIVE CollectDependsOn(_, _, _)
CollectDependsOn(dependsOn, j, resourceGroups) ==
    IF j > Len(dependsOn) THEN resourceGroups
    ELSE CollectDependsOn(dependsOn, j + 1,
             IF IsResourceGroupDependent(dependsOn[j])
             THEN MapInsert(resourceGroups, dependsOn[j].ResourceName)
             ELSE resourceGroups)

\* lines 67-75
RECURSIVE CollectDependencies(_, _, _)
CollectDependencies(dependencies, i, resourceGroups) ==
    IF i > Len(dependencies) THEN resourceGroups
    ELSE CollectDependencies(dependencies, i + 1,
             CollectDependsOn(dependencies[i], 1, resourceGroups))

\* lines 77-81: range over a Go map visits its keys once each, in an order
\* the language leaves open
KeyOrders(resourceGroups) ==
    {keys \in [1..Cardinality(resourceGroups) -> resourceGroups] :
        \A a, b \in DOMAIN keys : a # b => keys[a] # keys[b]}

\* the results GetResourceGroupsForDeployment can return
GetResourceGroupsForDeployment(az) ==
    LET fetched == GetSubscriptionDeployment(az)
        calls == <<RemoteCall("GetSubscriptionDeployment",
                              EmptyString, EmptyString)>>
    IN IF fetched.err THEN {Returned(TRUE, <<>>, TRUE, calls)}
       ELSE LET resourceGroups ==
                    CollectDependencies(fetched.dependencies, 1, {})
            IN {Returned(resourceGroups = {}, keys, FALSE, calls) :
                    keys \in KeyOrders(resourceGroups)}

----------------------------------------------------------------------------
(* The remote states the resolver is run against *)

MaxSubOps == 3
MaxNestedOps == 2
MaxDependencies == 2
MaxDependsOn == 2

SeqsUpTo(S, n) == UNION {[1..k -> S] : k \in 0..n}

SubOpChoices ==
    {OpRgApp, OpRgBlank, OpRgOther, OpDeployChild, OpStorageCreate}
ChildOpChoices ==
    {OpStorageCreate, OpStorageRead, OpDeployGrandchild, OpDeployGrandchildRead}
DependentChoices ==
    {Dependent(AzureResourceTypeResourceGroup, RgApp),
     Dependent(AzureResourceTypeResourceGroup, RgOther),
     Dependent(StorageAccountType, StorageName)}

\* a nested deployment: whether it exists, and its operations
Nested(exists, ops) == [exists |-> exists, ops |-> ops]
Missing == Nested(FALSE, <<>>)

ChildChoices ==
    {Nested(TRUE, ops) : ops \in SeqsUpTo(ChildOpChoices, MaxNestedOps)}
        \cup {Missing}
GrandchildChoices ==
    {Nested(TRUE, <<OpVaultCreate>>),
     Nested(TRUE, <<OpVaultRead, OpBlankTypeCreate, OpNoTypeCreate, OpVaultCreate>>),
     Missing}

\* the deployments of resource group rg-app
RgDeployments(child, grandchild) ==
    [p \in {<<RgApp, D1Child>> : x \in {child} \cap {c \in {child} : c.exists}}
            \cup {<<RgApp, D1Grandchild>> :
                     x \in {grandchild} \cap {g \in {grandchild} : g.exists}}
        |-> IF p[2] = D1Child THEN child.ops ELSE grandchild.ops]

Remote(subErr, subOps, child, grandchild, depErr, dependencies) ==
    [subErr |-> subErr, subOps |-> subOps,
     rgDeployments |-> RgDeployments(child, grandchild),
     depErr |-> depErr, dependencies |-> dependencies]

\* the scenario of the specification's section 8, with the resource group
\* operation GetDeploymentResourceOperations takes its scope from
ScenarioChild == Nested(TRUE, <<OpStorageCreate, OpDeployGrandchild>>)
ScenarioGrandchild == Nested(TRUE, <<OpVaultCreate>>)
ScenarioDependencies == <<<<Dependent(AzureResourceTypeResourceGroup, RgApp)>>>>
ScenarioSubOps == <<OpRgApp, OpDeployChild>>
Scenario ==
    Remote(FALSE, ScenarioSubOps, ScenarioChild, ScenarioGrandchild,
           FALSE, ScenarioDependencies)

\* The remote states a run starts from: every tree of operations, with the
\* scenario's dependencies; every list of dependencies, with the scenario's
\* tree; and the scenario with a failing subscription level call.
IsRemoteState(az) ==
    \/ \E subOps \in SeqsUpTo(SubOpChoices, MaxSubOps),
          child \in ChildChoices, grandchild \in GrandchildChoices :
           az = Remote(FALSE, subOps, child, grandchild,
                       FALSE, ScenarioDependencies)
    \/ \E dependencies \in SeqsUpTo(SeqsUpTo(DependentChoices, MaxDependsOn),
                                     MaxDependencies) :
           az = Remote(FALSE, ScenarioSubOps, ScenarioChild, ScenarioGrandchild,
                       FALSE, dependencies)
    \/ \E subErr, depErr \in BOOLEAN :
           az = Remote(subErr, ScenarioSubOps, ScenarioChild,
                       ScenarioGrandchild, depErr, ScenarioDependencies)

----------------------------------------------------------------------------
(* Errors.  A message is a sequence of pieces of text: a fixed text is one *)
(* piece, a name contributes its characters.                               *)

NoError == [isErr |-> FALSE, msg |-> <<>>]
Error(msg) == [isErr |-> TRUE, msg |-> msg]

\* strings.Contains
Contains(s, substr) ==
    \E i \in 0..(Len(s) - Len(substr)) : SubSeq(s, i + 1, i + Len(substr)) = substr

AlreadyExistsText ==
    <<"The following project already exists on the Azure DevOps Server: ">>
NotValidText == <<"The following name is not valid">>

\* the remote service's errors
AlreadyExistsError(n) == Error(<<"TF200019: ">> \o AlreadyExistsText \o n)
NotValidError(n) == Error(<<"VS402371: ">> \o NotValidText \o <<": ">> \o n)
RemoteError == Error(<<"remote call failed">>)
ContextError == Error(<<"context canceled">>)

\* fmt.Errorf(prefix + "%w", err)
Wrap(prefix, err) == Error(<<prefix>> \o err.msg)

----------------------------------------------------------------------------
(* The remote service's projects *)

Foo == <<"f", "o", "o">>
Foo2 == <<"f", "o", "o", "2">>
BadName == <<"b", "*">>
\* a name the naming rule allows, which reads like a part of an error message
SentenceName == <<"The following name is not valid">>

Project(n, id) == [nil |-> FALSE, Name |-> n, Id |-> id]
NoProject == [nil |-> TRUE, Name |-> EmptyString, Id |-> 0]

ProjectNames(list) == {list[i].Name : i \in DOMAIN list}

\* the naming rule of the remote service: no "*" in a project name
IsValidName(n) == \A i \in DOMAIN n : n[i] # "*"

\* a finished create operation: the project is listed from then on
WithProject(list, n) ==
    IF n \in ProjectNames(list) THEN list
    ELSE Append(list, Project(n, Len(list) + 1))

\* the status values an operation reports
Statuses == {"inProgress", "succeeded", "failed"}

----------------------------------------------------------------------------
(* createProject *)

maxCheck == 10

\* what createProject returns
CreateReturn(project, err) == [project |-> project, err |-> err]
NotReturned == CreateReturn(NoProject, NoError)

\* a project found without looking at its name
FirstListed(list, n) ==
    IF list = <<>> THEN NoProject ELSE list[1]

\* getAzdoProjectByName, lines 298-305: the first listed project of that name
RECURSIVE FindByName(_, _)
FindByName(list, n) ==
    IF list = <<>> THEN NoProject
    ELSE IF Head(list).Name = n THEN Head(list)
         ELSE FindByName(Tail(list), n)

\* a status test that takes any finished operation for a created project
IsFinished(status) == status \in {"succeeded", "failed"}

\* line 229
IsSucceeded(status) == status = "succeeded"

\* line 233
CeilingReached(c) == c >= maxCheck

\* createProject returns: back in getAzdoProjectFromNew, line 264
ReturnFromCreate(ret) ==
    /\ created' = ret
    /\ attempts' = Append(attempts, [name |-> name, ret |-> ret])
    /\ pc' = "returned"

\* lines 182-190: the client and the process template
CreateProjectSetup ==
    /\ pc = "setup"
    /\ \E outcome \in {"ok", "client", "template"} :
          IF outcome = "ok"
          THEN /\ pc' = "queue"
               /\ UNCHANGED <<created, attempts>>
          ELSE IF outcome = "client"
               THEN ReturnFromCreate(CreateReturn(NoProject, RemoteError))
               ELSE ReturnFromCreate(CreateReturn(NoProject,
                        Wrap("error fetching process template id ", RemoteError)))
    /\ UNCHANGED <<name, count, projectCreated, result, projects, cancelled,
                   prompts, polls, succeededPoll, lookups>>
    /\ UNCHANGED <<armVars, cfgVars, cleanVars>>

\* the answers of the remote service to QueueCreateProject(name)
QueueAnswers ==
    IF cancelled THEN {ContextError}
    ELSE IF ~IsValidName(name) THEN {NotValidError(name)}
    ELSE IF name \in ProjectNames(projects) THEN {AlreadyExistsError(name)}
    ELSE {NoError, RemoteError}

\* lines 192-221: queue the creation; accepted, the polling starts
QueueCreateProject ==
    /\ pc = "queue"
    /\ \E err \in QueueAnswers :
          IF err.isErr
          THEN /\ ReturnFromCreate(CreateReturn(NoProject, err))
               /\ UNCHANGED <<count, projectCreated>>
          ELSE /\ projectCreated' = FALSE
               /\ count' = 0
               /\ pc' = "poll"
               /\ UNCHANGED <<created, attempts>>
    /\ UNCHANGED <<name, result, projects, cancelled, prompts, polls,
                   succeededPoll, lookups>>
    /\ UNCHANGED <<armVars, cfgVars, cleanVars>>

\* the answers to GetOperation: an error once the context is done, else an
\* error or a status
PollAnswers ==
    IF cancelled THEN {[err |-> ContextError, status |-> "none"]}
    ELSE {[err |-> RemoteError, status |-> "none"]}
         \cup {[err |-> NoError, status |-> s] : s \in Statuses}

\* lines 224-231: one poll of the operation
PollOperation ==
    /\ pc = "poll"
    /\ polls' = polls + 1
    /\ \E answer \in PollAnswers :
          IF answer.err.isErr
          THEN /\ ReturnFromCreate(CreateReturn(NoProject, answer.err))
               /\ UNCHANGED <<projectCreated, projects, succeededPoll>>
          ELSE /\ projectCreated' =
                      IF IsSucceeded(answer.status) THEN TRUE ELSE projectCreated
               /\ succeededPoll' =
                      IF answer.status = "succeeded" /\ succeededPoll = 0
                      THEN polls + 1 ELSE succeededPoll
               /\ projects' =
                      IF answer.status = "succeeded"
                      THEN WithProject(projects, name) ELSE projects
               /\ pc' = "check"
               /\ UNCHANGED <<created, attempts>>
    /\ UNCHANGED <<name, count, result, cancelled, prompts, lookups>>
    /\ UNCHANGED <<armVars, cfgVars, cleanVars>>

\* lines 233-238: the ceiling, the count, and time.Sleep begins
CheckCeiling ==
    /\ pc = "check"
    /\ IF CeilingReached(count)
       THEN /\ ReturnFromCreate(CreateReturn(NoProject,
                    Error(<<"error creating azure devops project ">> \o name)))
            /\ UNCHANGED count
       ELSE /\ count' = count + 1
            /\ pc' = "sleeping"
            /\ UNCHANGED <<created, attempts>>
    /\ UNCHANGED <<name, projectCreated, result, projects, cancelled, prompts,
                   polls, succeededPoll, lookups>>
    /\ UNCHANGED <<armVars, cfgVars, cleanVars>>

\* line 238 and the loop's condition, line 223: time.Sleep returns, after
\* its 700 ms whatever the context
SleepReturns ==
    /\ pc = "sleeping"
    /\ pc' = IF projectCreated THEN "lookup" ELSE "poll"
    /\ UNCHANGED <<name, count, projectCreated, created, result, projects,
                   cancelled, prompts, attempts, polls, succeededPoll, lookups>>
    /\ UNCHANGED <<armVars, cfgVars, cleanVars>>

\* the answers to GetProjects
ListAnswers ==
    IF cancelled THEN {ContextError} ELSE {NoError, RemoteError}

\* lines 241-245 and getAzdoProjectByName
LookupProject ==
    /\ pc = "lookup"
    /\ lookups' = lookups + 1
    /\ \E err \in ListAnswers :
          IF err.isErr
          THEN ReturnFromCreate(CreateReturn(NoProject, err))
          ELSE LET project == FindByName(projects, name)
               IN IF project.nil
                  THEN ReturnFromCreate(CreateReturn(NoProject,
                           Error(<<"azure devops project ">> \o name
                                     \o <<" not found">>)))
                  ELSE ReturnFromCreate(CreateReturn(project, NoError))
    /\ UNCHANGED <<name, count, projectCreated, result, projects, cancelled,
                   prompts, polls, succeededPoll>>
    /\ UNCHANGED <<armVars, cfgVars, cleanVars>>

----------------------------------------------------------------------------
(* getAzdoProjectFromNew *)

MaxPrompts == 3

PromptNames == {Foo, Foo2, BadName, SentenceName}

\* what getAzdoProjectFromNew returns
NewReturn(n, id, err) == [name |-> n, id |-> id, err |-> err]
Running == NewReturn(EmptyString, 0, NoError)

\* lines 256-262: the prompt; answered, createProject is called
Prompt ==
    /\ pc = "prompt"
    /\ prompts < MaxPrompts
    /\ \E answer \in {[err |-> TRUE, name |-> EmptyString]}
                        \cup {[err |-> FALSE, name |-> n] : n \in PromptNames} :
          IF answer.err
          THEN /\ result' = NewReturn(EmptyString, 0,
                                Wrap("asking for new project name: ",
                                     Error(<<"no answer">>)))
               /\ pc' = "done"
               /\ UNCHANGED <<name, prompts>>
          ELSE /\ name' = answer.name
               /\ prompts' = prompts + 1
               /\ pc' = "setup"
               /\ UNCHANGED result
    /\ polls' = 0
    /\ succeededPoll' = 0
    /\ lookups' = 0
    /\ created' = NotReturned
    /\ UNCHANGED <<count, projectCreated, projects, cancelled, attempts>>
    /\ UNCHANGED <<armVars, cfgVars, cleanVars>>

\* lines 263-267
Message(err) == IF err.isErr THEN err.msg ELSE EmptyString

\* line 268
SaysAlreadyExists(message, n) == Contains(message, AlreadyExistsText \o n)

\* a test for the message being that text and nothing else
IsNotValidText(message) == message = NotValidText

\* line 271
SaysNotValid(message) == Contains(message, NotValidText)

\* lines 265-282: createProject has returned
HandleCreated ==
    /\ pc = "returned"
    /\ LET message == Message(created.err) IN
       IF SaysAlreadyExists(message, name) \/ SaysNotValid(message)
       THEN /\ pc' = "prompt"
            /\ UNCHANGED result
       ELSE IF created.err.isErr
            THEN /\ result' = NewReturn(EmptyString, 0,
                                  Wrap("creating project: ", created.err))
                 /\ pc' = "done"
            ELSE /\ result' = NewReturn(created.project.Name,
                                        created.project.Id, NoError)
                 /\ pc' = "done"
    /\ UNCHANGED <<name, count, projectCreated, created, projects, cancelled,
                   prompts, attempts, polls, succeededPoll, lookups>>
    /\ UNCHANGED <<armVars, cfgVars, cleanVars>>

\* the caller's cancellation or deadline
Cancel ==
    /\ ~cancelled
    /\ pc # "done"
    /\ cancelled' = TRUE
    /\ UNCHANGED <<pc, name, count, projectCreated, created, result, projects,
                   prompts, attempts, polls, succeededPoll, lookups>>
    /\ UNCHANGED <<armVars, cfgVars, cleanVars>>

----------------------------------------------------------------------------
(* The environment: env.Values, its file, and the process environment *)

\* the host of another provider
GitHubHostName == "github.com"

AzDoHostName == "dev.azure.com"
\* lines 26-32: the names of the environment's keys, character by character
\* AZURE_DEVOPS_EXT_PAT
AzDoPatName ==
    <<"A", "Z", "U", "R", "E", "_", "D", "E", "V", "O", "P", "S", "_", "E",
      "X", "T", "_", "P", "A", "T">>
\* AZURE_DEVOPS_ORG_NAME
AzDoEnvironmentOrgName ==
    <<"A", "Z", "U", "R", "E", "_", "D", "E", "V", "O", "P", "S", "_", "O",
      "R", "G", "_", "N", "A", "M", "E">>
\* AZURE_DEVOPS_PROJECT_ID
AzDoEnvironmentProjectIdName ==
    <<"A", "Z", "U", "R", "E", "_", "D", "E", "V", "O", "P", "S", "_", "P",
      "R", "O", "J", "E", "C", "T", "_", "I", "D">>
\* AZURE_DEVOPS_PROJECT_NAME
AzDoEnvironmentProjectName ==
    <<"A", "Z", "U", "R", "E", "_", "D", "E", "V", "O", "P", "S", "_", "P",
      "R", "O", "J", "E", "C", "T", "_", "N", "A", "M", "E">>
\* AZURE_DEVOPS_REPOSITORY_ID
AzDoEnvironmentRepoIdName ==
    <<"A", "Z", "U", "R", "E", "_", "D", "E", "V", "O", "P", "S", "_", "R",
      "E", "P", "O", "S", "I", "T", "O", "R", "Y", "_", "I", "D">>
\* AZURE_DEVOPS_REPOSITORY_NAME
AzDoEnvironmentRepoName ==
    <<"A", "Z", "U", "R", "E", "_", "D", "E", "V", "O", "P", "S", "_", "R",
      "E", "P", "O", "S", "I", "T", "O", "R", "Y", "_", "N", "A", "M", "E">>
\* AZURE_DEVOPS_REPOSITORY_WEB_URL
AzDoEnvironmentRepoWebUrl ==
    <<"A", "Z", "U", "R", "E", "_", "D", "E", "V", "O", "P", "S", "_", "R",
      "E", "P", "O", "S", "I", "T", "O", "R", "Y", "_", "W", "E", "B", "_",
      "U", "R", "L">>

\* a Go map[string]string is a function on the keys it holds
EmptyMap == [k \in {} |-> EmptyString]

\* m[key] of a Go map: the empty string for a key it does not hold
MapGet(m, key) == IF key \in DOMAIN m THEN m[key] ELSE EmptyString

\* m[key] = value
MapSet(m, key, value) ==
    [k \in DOMAIN m \cup {key} |-> IF k = key THEN value ELSE m[k]]

\* os.LookupEnv
LookupEnv(os, key) ==
    IF key \in DOMAIN os THEN [value |-> os[key], exists |-> TRUE]
    ELSE [value |-> EmptyString, exists |-> FALSE]

Found(value, err) == [value |-> value, err |-> err]

\* ensureAzdoConfigExists with the two lookups in the other order
ensureAzdoConfigFromProcessFirst(values, os, key, label) ==
    LET looked == LookupEnv(os, key) IN
    IF looked.exists /\ looked.value # EmptyString
    THEN Found(looked.value, NoError)
    ELSE IF MapGet(values, key) # EmptyString
         THEN Found(MapGet(values, key), NoError)
         ELSE Found(EmptyString,
                    Error(<<label, " not found in environment variable ">> \o key))

\* ensureAzdoConfigExists without the lookup in the process environment
ensureAzdoConfigInValues(values, os, key, label) ==
    Found(MapGet(values, key),
          IF MapGet(values, key) # EmptyString THEN NoError
          ELSE Error(<<label, " not found in environment variable ">> \o key))

\* ensureAzdoConfigExists, lines 43-54
ensureAzdoConfigExists(values, os, key, label) ==
    LET value == MapGet(values, key) IN
    IF value # EmptyString THEN Found(value, NoError)
    ELSE LET looked == LookupEnv(os, key) IN
         IF ~looked.exists \/ looked.value = EmptyString
         THEN Found(looked.value,
                    Error(<<label, " not found in environment variable ">> \o key))
         ELSE Found(looked.value, NoError)

\* lines 57-59
ensureAzdoPatExists(values, os) ==
    ensureAzdoConfigExists(values, os, AzDoPatName,
                           "azure devops personal access token")

\* lines 62-64
ensureAzdoOrgNameExists(values, os) ==
    ensureAzdoConfigExists(values, os, AzDoEnvironmentOrgName,
                           "azure devops organization name")

----------------------------------------------------------------------------
(* The environment's file: one line KEY="value" per key, the value escaped *)

Quote == "\""
Backslash == "\\"

RECURSIVE Escape(_)
Escape(s) ==
    IF s = <<>> THEN <<>>
    ELSE IF Head(s) \in {Quote, Backslash}
         THEN <<Backslash, Head(s)>> \o Escape(Tail(s))
         ELSE <<Head(s)>> \o Escape(Tail(s))

RECURSIVE Unescape(_)
Unescape(s) ==
    IF s = <<>> THEN <<>>
    ELSE IF Head(s) = Backslash /\ Len(s) >= 2
         THEN <<s[2]>> \o Unescape(Tail(Tail(s)))
         ELSE <<Head(s)>> \o Unescape(Tail(s))

Line(key, value) == key \o <<"=", Quote>> \o Escape(value) \o <<Quote>>

\* the printable characters of ASCII in the order of their code points,
\* the space (32) first; the backquote (96) cannot be written in a string
\* here and is left out
Ascii ==
    <<" ", "!", Quote, "#", "$", "%", "&", "'", "(", ")", "*", "+", ",", "-",
      ".", "/", "0", "1", "2", "3", "4", "5", "6", "7", "8", "9", ":", ";",
      "<", "=", ">", "?", "@", "A", "B", "C", "D", "E", "F", "G", "H", "I",
      "J", "K", "L", "M", "N", "O", "P", "Q", "R", "S", "T", "U", "V", "W",
      "X", "Y", "Z", "[", Backslash, "]", "^", "_", "a", "b", "c", "d",
      "e", "f", "g", "h", "i", "j", "k", "l", "m", "n", "o", "p", "q", "r",
      "s", "t", "u", "v", "w", "x", "y", "z", "{", "|", "}", "~">>

\* the place of a character in that order; the others come after them all
CodePoint(c) ==
    IF \E i \in DOMAIN Ascii : Ascii[i] = c
    THEN CHOOSE i \in DOMAIN Ascii : Ascii[i] = c
    ELSE Len(Ascii) + 1

\* a < b for two lines, character by character
RECURSIVE LineLess(_, _)
LineLess(a, b) ==
    IF b = <<>> THEN FALSE
    ELSE IF a = <<>> THEN TRUE
    ELSE IF Head(a) = Head(b) THEN LineLess(Tail(a), Tail(b))
    ELSE CodePoint(Head(a)) < CodePoint(Head(b))

\* a line put at its place among sorted lines
RECURSIVE Insert(_, _)
Insert(line, sorted) ==
    IF sorted = <<>> THEN <<line>>
    ELSE IF LineLess(line, Head(sorted)) THEN <<line>> \o sorted
    ELSE <<Head(sorted)>> \o Insert(line, Tail(sorted))

\* one line for each of the keys, the lines sorted
RECURSIVE Lines(_, _)
Lines(values, keys) ==
    IF keys = {} THEN <<>>
    ELSE LET key == CHOOSE k \in keys : TRUE
         IN Insert(Line(key, values[key]), Lines(values, keys \ {key}))

\* env.Save: the file is written anew, with a line for every key env.Values
\* holds
Save(values) == Lines(values, DOMAIN values)

\* the index of the first "=" of a line
RECURSIVE IndexOfEquals(_, _)
IndexOfEquals(line, i) ==
    IF i > Len(line) THEN 0
    ELSE IF line[i] = "=" THEN i ELSE IndexOfEquals(line, i + 1)

ParseLine(line) ==
    LET e == IndexOfEquals(line, 1)
        raw == SubSeq(line, e + 1, Len(line))
    IN [key |-> SubSeq(line, 1, e - 1),
        value |-> IF Len(raw) >= 2 /\ Head(raw) = Quote /\ raw[Len(raw)] = Quote
                  THEN Unescape(SubSeq(raw, 2, Len(raw) - 1))
                  ELSE raw]

\* environment.FromFile: a later line of a key replaces an earlier one
RECURSIVE FromLines(_, _, _)
FromLines(file, i, values) ==
    IF i > Len(file) THEN values
    ELSE LET parsed == ParseLine(file[i])
         IN FromLines(file, i + 1, MapSet(values, parsed.key, parsed.value))

FromFile(file) == FromLines(file, 1, EmptyMap)

\* what saveEnvironmentConfig(key, value) leaves: the values and the file
Saved(values, file) == [values |-> values, file |-> file]

\* a save that writes the one pair and drops the others
ReplaceOnSave(values, key, value) ==
    Saved(MapSet(EmptyMap, key, value), <<Line(key, value)>>)

saveEnvironmentConfig(values, key, value) ==
    Saved(MapSet(values, key, value), Save(MapSet(values, key, value)))

----------------------------------------------------------------------------
(* gitRepoDetails of the Azure DevOps provider.  A remote URL is the        *)
(* sequence of its parts, the separators among them.                        *)

\* the shapes of a remote URL
HttpsWithOrg(host, org, project, repo) ==
    <<"https://", org, "@">> \o host
        \o <<"/", org, "/", project, "/", "_git", "/", repo>>
HttpsProject(host, org, project, repo) ==
    <<"https://">> \o host \o <<"/", org, "/", project, "/", "_git", "/", repo>>
HttpsCanonical(host, org, repo) ==
    <<"https://">> \o host \o <<"/", org, "/", repo, ".git">>
SshShort(host, org, repo) ==
    <<"git@">> \o host \o <<":", org, "/", repo, ".git">>
SshVersioned(host, org, project, repo) ==
    <<"git@", "ssh", ".">> \o host
        \o <<":", "v3", "/", org, "/", project, "/", repo>>

\* the first index of part in s, 0 when there is none
RECURSIVE IndexOf(_, _, _)
IndexOf(s, part, i) ==
    IF i > Len(s) THEN 0
    ELSE IF s[i] = part THEN i ELSE IndexOf(s, part, i + 1)

\* strings.Split(s, "/")
RECURSIVE Split(_)
Split(s) ==
    LET slash == IndexOf(s, "/", 1) IN
    IF slash = 0 THEN <<s>>
    ELSE <<SubSeq(s, 1, slash - 1)>> \o Split(SubSeq(s, slash + 1, Len(s)))

\* strings.TrimSuffix(s, ".git")
TrimGitSuffix(s) ==
    IF s # <<>> /\ s[Len(s)] = ".git" THEN SubSeq(s, 1, Len(s) - 1) ELSE s

ErrRemoteHostIsNotAzDo == Error(<<"existing remote is not an Azure DevOps host">>)
ErrRemoteNotParsed == Error(<<"remote is not an Azure DevOps repository">>)

\* *gitRepositoryDetails and the error
Details(owner, repoName, pushStatus) ==
    [nil |-> FALSE, owner |-> owner, repoName |-> repoName,
     pushStatus |-> pushStatus, err |-> NoError]
NoDetails(err) ==
    [nil |-> TRUE, owner |-> EmptyString, repoName |-> EmptyString,
     pushStatus |-> FALSE, err |-> err]

\* the host of the URL: after "user@" for HTTPS, before ":" for SSH
HostOf(url) ==
    IF url # <<>> /\ Head(url) = "https://"
    THEN LET rest == Tail(url)
             slash == IndexOf(rest, "/", 1)
             authority == IF slash = 0 THEN rest ELSE SubSeq(rest, 1, slash - 1)
             atSign == IndexOf(authority, "@", 1)
         IN SubSeq(authority, atSign + 1, Len(authority))
    ELSE IF url # <<>> /\ Head(url) = "git@"
    THEN LET rest == Tail(url)
             colon == IndexOf(rest, ":", 1)
         IN IF colon = 0 THEN rest ELSE SubSeq(rest, 1, colon - 1)
    ELSE <<>>

\* the path of the URL, split at "/"
PathOf(url) ==
    LET rest == Tail(url)
        sep == IF Head(url) = "https://" THEN IndexOf(rest, "/", 1)
               ELSE IndexOf(rest, ":", 1)
    IN IF sep = 0 THEN <<>> ELSE Split(SubSeq(rest, sep + 1, Len(rest)))

\* the URL's host is the Azure DevOps host, or its SSH host
IsAzDoRemote(url) ==
    \/ HostOf(url) = <<AzDoHostName>>
    \/ Head(url) = "git@" /\ HostOf(url) = <<"ssh", ".", AzDoHostName>>

\* a parse that takes the project of the URL for its repository
ParsePathProject(path) ==
    IF Len(path) = 4 /\ path[3] = <<"_git">>
    THEN Details(path[1], path[2], FALSE)
    ELSE IF Len(path) = 4 /\ path[1] = <<"v3">>
    THEN Details(path[2], path[3], FALSE)
    ELSE IF Len(path) = 2
    THEN Details(path[1], TrimGitSuffix(path[2]), FALSE)
    ELSE NoDetails(ErrRemoteNotParsed)

\* org/project/_git/repo, v3/org/project/repo and org/repo[.git]
ParsePath(path) ==
    IF Len(path) = 4 /\ path[3] = <<"_git">>
    THEN Details(path[1], path[4], FALSE)
    ELSE IF Len(path) = 4 /\ path[1] = <<"v3">>
    THEN Details(path[2], path[4], FALSE)
    ELSE IF Len(path) = 2
    THEN Details(path[1], TrimGitSuffix(path[2]), FALSE)
    ELSE NoDetails(ErrRemoteNotParsed)

gitRepoDetails(url) ==
    IF url = <<>> \/ Head(url) \notin {"https://", "git@"}
    THEN NoDetails(ErrRemoteHostIsNotAzDo)
    ELSE IF ~IsAzDoRemote(url) THEN NoDetails(ErrRemoteHostIsNotAzDo)
    ELSE ParsePath(PathOf(url))

----------------------------------------------------------------------------
(* A configuration run: the states of the configurator and the provider     *)
(* remoteCalls that drive it                                                      *)

States == <<"Start", "CredentialsVerified", "RepositoryResolved",
            "ProjectResolved", "ServiceConnectionReady", "PipelineCreated",
            "PolicyApplied", "Done">>

Rank(s) == CHOOSE i \in DOMAIN States : States[i] = s

Successor(s) == States[Rank(s) + 1]

\* where the call begins that leaves the state; none is left in PolicyApplied
Entry(s) ==
    CASE s = "Start" -> "preCheckPat"
      [] s = "CredentialsVerified" -> "repoDetails"
      [] s = "RepositoryResolved" -> "resolveProject"
      [] s = "ProjectResolved" -> "createEndpoint"
      [] s = "ServiceConnectionReady" -> "createPipeline"
      [] s = "PipelineCreated" -> "getBuildType"
      [] s = "PolicyApplied" -> "returned"
      [] s = "Done" -> "done"

\* the number of preConfigureCheck remoteCalls of a run
MaxChecks == 2

\* a provider call has returned: its error halts the run in the state it
\* is in, else the run is in the next state and makes that state's call
Transition ==
    /\ at = "returned"
    /\ IF callRet.isErr
       THEN /\ at' = "halted"
            /\ UNCHANGED state
       ELSE /\ state' = Successor(state)
            /\ at' = Entry(Successor(state))
    /\ UNCHANGED <<callRet, osEnv, envValues, envFile, writes, asked, checks,
                   remoteUrl, details, projectRef, endpoint, buildDefinition,
                   service, remoteCalls, logged>>
    /\ UNCHANGED <<armVars, projVars, cleanVars>>

\* preConfigureCheck is called once more
CheckAgain ==
    /\ at = "returned"
    /\ state = "Start"
    /\ ~callRet.isErr
    /\ checks < MaxChecks
    /\ at' = "preCheckPat"
    /\ UNCHANGED <<state, callRet, osEnv, envValues, envFile, writes, asked,
                   checks, remoteUrl, details, projectRef, endpoint,
                   buildDefinition, service, remoteCalls, logged>>
    /\ UNCHANGED <<armVars, projVars, cleanVars>>

----------------------------------------------------------------------------
(* preConfigureCheck *)

PatValue == <<"p", "=", "1">>
OrgValue == <<"o", "r", "g">>
QuotedValue == <<"q", Quote>>

\* console.Prompt: no answer, or an answer
PromptOutcomes ==
    {[err |-> TRUE, value |-> EmptyString]}
        \cup {[err |-> FALSE, value |-> v] : v \in {PatValue, QuotedValue}}

MissingCredential(err) == Wrap("missing credential: ", err)

\* the value is there, or it is asked for and saved
EnsureOrPrompt(found, key, next, counted) ==
    IF ~found.err.isErr
    THEN /\ at' = next
         /\ callRet' = NoError
         /\ checks' = checks + counted
         /\ UNCHANGED <<envValues, envFile, writes, asked>>
    ELSE /\ asked' = asked + 1
         /\ \E answer \in PromptOutcomes :
               IF answer.err
               THEN /\ callRet' = MissingCredential(found.err)
                    /\ at' = "returned"
                    /\ UNCHANGED <<envValues, envFile, writes, checks>>
               ELSE LET saved == saveEnvironmentConfig(envValues, key,
                                                       answer.value)
                    IN /\ envValues' = saved.values
                       /\ envFile' = saved.file
                       /\ writes' = Append(writes, [key |-> key,
                                                    value |-> answer.value])
                       /\ at' = next
                       /\ callRet' = NoError
                       /\ checks' = checks + counted

PreCheckPat ==
    /\ at = "preCheckPat"
    /\ EnsureOrPrompt(ensureAzdoPatExists(envValues, osEnv), AzDoPatName,
                      "preCheckOrg", 0)
    /\ UNCHANGED <<state, osEnv, remoteUrl, details, projectRef, endpoint,
                   buildDefinition, service, remoteCalls, logged>>
    /\ UNCHANGED <<armVars, projVars, cleanVars>>

PreCheckOrg ==
    /\ at = "preCheckOrg"
    /\ EnsureOrPrompt(ensureAzdoOrgNameExists(envValues, osEnv),
                      AzDoEnvironmentOrgName, "returned", 1)
    /\ UNCHANGED <<state, osEnv, remoteUrl, details, projectRef, endpoint,
                   buildDefinition, service, remoteCalls, logged>>
    /\ UNCHANGED <<armVars, projVars, cleanVars>>

----------------------------------------------------------------------------
(* The repository and the project *)

NotDetected == NoDetails(NoError)

GitRepoDetails ==
    /\ at = "repoDetails"
    /\ details' = gitRepoDetails(remoteUrl)
    /\ callRet' = details'.err
    /\ at' = "returned"
    /\ UNCHANGED <<state, osEnv, envValues, envFile, writes, asked, checks,
                   remoteUrl, projectRef, endpoint, buildDefinition, service,
                   remoteCalls, logged>>
    /\ UNCHANGED <<armVars, projVars, cleanVars>>

\* a call to the remote service: its name, its argument, and its success
Call(call, arg, ok) == [call |-> call, arg |-> arg, ok |-> ok]

\* project.Id.String(), lines 282 and 338: an id below ten as its digit
IdString(id) ==
    <<(<<"0", "1", "2", "3", "4", "5", "6", "7", "8", "9">>)[id + 1]>>

NoProjectYet == NewReturn(EmptyString, EmptyString, NoError)

\* What one call of a function that resolves the project did: the console
\* prompts it issued, its remote calls in order, the service's projects as
\* it leaves them, and what it returned.
Run(prompted, calls, list, ret) ==
    [asked |-> prompted, calls |-> calls, projects |-> list, ret |-> ret]

\* one answer of GetOperation
Polled(err, status) == [err |-> err, status |-> status]

\* the number of "inProgress" answers before the last answer of GetOperation
PollsBefore == {0, maxCheck}

\* the answers of GetOperation during one createProject call: some
\* "inProgress", then "succeeded" or an error; or "inProgress" throughout
PollScripts ==
    LET InProgress(k) == [i \in 1..k |-> Polled(NoError, "inProgress")]
    IN {InProgress(k) \o <<final>> :
           k \in PollsBefore,
           final \in {Polled(NoError, "succeeded"), Polled(RemoteError, "none")}}
       \cup {InProgress(maxCheck + 1)}

\* lines 223-239: the polling loop of createProject(n) from its answer i on,
\* with count c; it ends with an error, or with the project created and to
\* be looked up
RECURSIVE PollRun(_, _, _, _, _)
PollRun(n, answers, i, c, calls) ==
    LET answer == answers[i]
        called == Append(calls, Call("GetOperation", 0, ~answer.err.isErr))
    IN IF answer.err.isErr
       THEN [calls |-> called, err |-> answer.err, succeeded |-> FALSE,
             lookup |-> FALSE]
       ELSE IF CeilingReached(c)
            THEN [calls |-> called, succeeded |-> IsSucceeded(answer.status),
                  err |-> Error(<<"error creating azure devops project ">> \o n),
                  lookup |-> FALSE]
            ELSE IF IsSucceeded(answer.status)
                 THEN [calls |-> called, err |-> NoError, succeeded |-> TRUE,
                       lookup |-> TRUE]
                 ELSE PollRun(n, answers, i + 1, c + 1, called)

\* createProject(n), lines 181-246, against the service's projects list and
\* after the remote calls calls: every way it can go, each with its remote
\* calls, the projects it leaves and what it returns
CreateProjectRuns(n, list, calls) ==
    LET Returns(cs, l, project, err) ==
            [calls |-> cs, projects |-> l, ret |-> CreateReturn(project, err)]
        templated == Append(calls, Call("GetProcesses", 0, TRUE))
        queueAnswers ==
            IF ~IsValidName(n) THEN {NotValidError(n)}
            ELSE IF n \in ProjectNames(list) THEN {AlreadyExistsError(n)}
            ELSE {NoError, RemoteError}
        \* lines 241-245 and getAzdoProjectByName
        Lookup(p, l) ==
            LET listed == Append(p.calls, Call("GetProjects", 0, TRUE))
                project == FindByName(l, n)
            IN {Returns(p.calls, l, NoProject, RemoteError),
                Returns(Append(p.calls, Call("GetProjects", 0, FALSE)), l,
                        NoProject, RemoteError),
                IF project.nil
                THEN Returns(listed, l, NoProject,
                             Error(<<"azure devops project ">> \o n
                                       \o <<" not found">>))
                ELSE Returns(listed, l, project, NoError)}
        Polling(queued) ==
            UNION {LET p == PollRun(n, script, 1, 0, queued)
                       l == IF p.succeeded THEN WithProject(list, n) ELSE list
                   IN IF p.lookup THEN Lookup(p, l)
                      ELSE {Returns(p.calls, l, NoProject, p.err)} :
                   script \in PollScripts}
    IN {Returns(calls, list, NoProject, RemoteError),
        Returns(Append(calls, Call("GetProcesses", 0, FALSE)), list, NoProject,
                Wrap("error fetching process template id ", RemoteError))}
       \cup UNION {IF err.isErr
                   THEN {Returns(Append(templated,
                                        Call("QueueCreateProject", 0, FALSE)),
                                 list, NoProject, err)}
                   ELSE Polling(Append(templated,
                                       Call("QueueCreateProject", 0, TRUE))) :
                   err \in queueAnswers}

\* the prompts of one getAzdoProjectFromNew call that are answered
MaxAttempts == 2

\* the names the console answers
NewProjectNames == {Foo, Foo2, BadName}

\* lines 255-282: the loop of getAzdoProjectFromNew, from the run r so far
\* and with at most budget prompts answered
RECURSIVE NewProjectRuns(_, _)
NewProjectRuns(r, budget) ==
    LET prompted == r.asked + 1
        \* lines 264-280, for what createProject(n) did
        Handled(n, c) ==
            LET message == Message(c.ret.err) IN
            IF SaysAlreadyExists(message, n) \/ SaysNotValid(message)
            THEN IF budget > 1
                 THEN NewProjectRuns(Run(prompted, c.calls, c.projects, r.ret),
                                     budget - 1)
                 ELSE {}
            ELSE IF c.ret.err.isErr
                 THEN {Run(prompted, c.calls, c.projects,
                           NewReturn(EmptyString, EmptyString,
                                     Wrap("creating project: ", c.ret.err)))}
                 ELSE {Run(prompted, c.calls, c.projects,
                           NewReturn(c.ret.project.Name,
                                     IdString(c.ret.project.Id), NoError))}
    IN {Run(prompted, r.calls, r.projects,
            NewReturn(EmptyString, EmptyString,
                      Wrap("asking for new project name: ",
                           Error(<<"no answer">>))))}
       \cup UNION {UNION {Handled(n, c) :
                             c \in CreateProjectRuns(n, r.projects, r.calls)} :
                   n \in NewProjectNames}

\* getAzdoProjectFromNew, lines 250-283, against the service's projects
getAzdoProjectFromNew(list) ==
    NewProjectRuns(Run(0, <<>>, list, NoProjectYet), MaxAttempts)

\* getAzdoProjectFromExisting, lines 309-339
getAzdoProjectFromExisting(list) ==
    LET listed == <<Call("GetProjects", 0, TRUE)>>
        Failed(prompted, calls, err) ==
            Run(prompted, calls, list, NewReturn(EmptyString, EmptyString, err))
    IN {Failed(0, <<>>, RemoteError),
        Failed(0, <<Call("GetProjects", 0, FALSE)>>, RemoteError),
        Failed(1, listed, Wrap("prompting for azdo project: ",
                               Error(<<"no answer">>)))}
       \cup {Run(1, listed, list,
                 NewReturn(list[i].Name, IdString(list[i].Id), NoError)) :
                i \in DOMAIN list}

\* the function has returned to the run
ProjectResolved(run) ==
    /\ projectRef' = run.ret
    /\ callRet' = run.ret.err
    /\ asked' = asked + run.asked
    /\ remoteCalls' = remoteCalls \o run.calls
    /\ service' = [service EXCEPT !.projects = run.projects]
    /\ at' = IF run.ret.err.isErr THEN "returned" ELSE "saveProjectName"
    /\ UNCHANGED <<state, osEnv, envValues, envFile, writes, checks,
                   remoteUrl, details, endpoint, buildDefinition, logged>>
    /\ UNCHANGED <<armVars, projVars, cleanVars>>

\* the project is a new one
ResolveProject ==
    /\ at = "resolveProject"
    /\ \E run \in getAzdoProjectFromNew(service.projects) : ProjectResolved(run)

\* the project is one of those the service lists
ResolveExistingProject ==
    /\ at = "resolveProject"
    /\ \E run \in getAzdoProjectFromExisting(service.projects) :
          ProjectResolved(run)

\* one saveEnvironmentConfig call of the run
SaveConfig(key, value, next) ==
    LET saved == saveEnvironmentConfig(envValues, key, value)
    IN /\ envValues' = saved.values
       /\ envFile' = saved.file
       /\ writes' = Append(writes, [key |-> key, value |-> value])
       /\ at' = next

SaveProjectName ==
    /\ at = "saveProjectName"
    /\ SaveConfig(AzDoEnvironmentProjectName, projectRef.name, "saveProjectId")
    /\ UNCHANGED <<state, callRet, osEnv, asked, checks, remoteUrl, details,
                   projectRef, endpoint, buildDefinition, service, remoteCalls, logged>>
    /\ UNCHANGED <<armVars, projVars, cleanVars>>

SaveProjectId ==
    /\ at = "saveProjectId"
    /\ SaveConfig(AzDoEnvironmentProjectIdName, projectRef.id, "returned")
    /\ UNCHANGED <<state, callRet, osEnv, asked, checks, remoteUrl, details,
                   projectRef, endpoint, buildDefinition, service, remoteCalls, logged>>
    /\ UNCHANGED <<armVars, projVars, cleanVars>>

\* the number of saveEnvironmentConfig calls made before a run
MaxSaves == 2

\* the key and the value of Test_saveEnvironmentConfig
TestKey == <<"t", "e", "s", "t">>
TestValue == <<"1", "2", "3", "4", "5">>
BackslashValue == <<Backslash, "=", Quote>>
RepoValue == <<"r", "e", "p", "o", "1">>

\* saveEnvironmentConfig called on the provider outside a run, as
\* Test_saveEnvironmentConfig calls it
SaveEnvironmentConfig ==
    /\ state = "Start"
    /\ at = "preCheckPat"
    /\ checks = 0
    /\ asked = 0
    /\ Len(writes) < MaxSaves
    /\ \E key \in {TestKey, AzDoEnvironmentProjectName},
          value \in {TestValue, BackslashValue} :
           SaveConfig(key, value, at)
    /\ UNCHANGED <<state, callRet, osEnv, asked, checks, remoteUrl, details,
                   projectRef, endpoint, buildDefinition, service, remoteCalls, logged>>
    /\ UNCHANGED <<armVars, projVars, cleanVars>>

----------------------------------------------------------------------------
(* createServiceConnection and authorizeServiceConnectionToAllPipelines *)

EndpointIds == {1, 2}
NoEndpoint == 0

\* a check of the create call's error that lets every error pass
EndpointCreateUnchecked(err) == FALSE

\* line 575
EndpointCreateFailed(err) == err.isErr

\* what the client's construction and CreateServiceEndpoint can answer
EndpointOutcomes ==
    {[kind |-> k, id |-> NoEndpoint] : k \in {"client", "failed"}}
        \cup {[kind |-> "created", id |-> id] : id \in EndpointIds}

\* lines 531-577: the client and the create call
CreateServiceEndpoint ==
    /\ at = "createEndpoint"
    /\ \E outcome \in EndpointOutcomes :
          IF outcome.kind = "client"
          THEN /\ callRet' = RemoteError
               /\ at' = "returned"
               /\ UNCHANGED <<endpoint, service, remoteCalls>>
          ELSE LET err == IF outcome.kind = "failed" THEN RemoteError
                          ELSE NoError
               IN /\ remoteCalls' =
                         Append(remoteCalls, Call("CreateServiceEndpoint",
                                                  outcome.id, ~err.isErr))
                  /\ service' =
                         IF err.isErr THEN service
                         ELSE [service EXCEPT !.endpoints = @ \cup {outcome.id}]
                  /\ endpoint' = outcome.id
                  /\ IF EndpointCreateFailed(err)
                     THEN /\ callRet' = err
                          /\ at' = "returned"
                     ELSE /\ at' = "authorize"
                          /\ UNCHANGED callRet
    /\ UNCHANGED <<state, osEnv, envValues, envFile, writes, asked, checks,
                   remoteUrl, details, projectRef, buildDefinition, logged>>
    /\ UNCHANGED <<armVars, projVars, cleanVars>>

\* line 579 takes no result of the call, and line 581 returns nil
ReturnAfterAuthorize(err) == NoError

\* lines 579-581 and 488-519: the authorization of the endpoint, its error
\* dropped
AuthorizeServiceConnection ==
    /\ at = "authorize"
    /\ \E outcome \in {"client", "failed", "ok"} :
          /\ remoteCalls' =
                 IF outcome = "client" THEN remoteCalls
                 ELSE Append(remoteCalls, Call("AuthorizeProjectResources",
                                               endpoint, outcome = "ok"))
          /\ service' =
                 IF outcome = "ok"
                 THEN [service EXCEPT !.authorized = @ \cup {endpoint}]
                 ELSE service
          /\ callRet' = ReturnAfterAuthorize(
                        IF outcome = "ok" THEN NoError ELSE RemoteError)
    /\ at' = "returned"
    /\ UNCHANGED <<state, osEnv, envValues, envFile, writes, asked, checks,
                   remoteUrl, details, projectRef, endpoint, buildDefinition,
                   logged>>
    /\ UNCHANGED <<armVars, projVars, cleanVars>>

----------------------------------------------------------------------------
(* createPipeline *)

DefinitionIds == {1, 2}

BuildDefinition(id) == [nil |-> FALSE, Id |-> id]
NoBuildDefinition == [nil |-> TRUE, Id |-> 0]

\* line 368: GetAgentQueues lists no queue named "Default"
NoDefaultQueue(projectId) ==
    Error(<<"could not find a default agent queue in project ">> \o projectId)

\* what the client's construction, getAgentQueue and CreateDefinition can
\* answer: no client, the queues' listing fails, it lists no "Default"
\* queue, the create call fails, or the definition is created
PipelineOutcomes ==
    {[kind |-> k, id |-> 0] : k \in {"client", "queue", "noDefault", "failed"}}
        \cup {[kind |-> "created", id |-> id] : id \in DefinitionIds}

\* lines 381-452 and 351-368: the client, the agent queue and the create
\* call
CreatePipeline ==
    /\ at = "createPipeline"
    /\ \E outcome \in PipelineOutcomes :
          /\ remoteCalls' =
                 CASE outcome.kind = "client" -> remoteCalls
                   [] outcome.kind = "queue" ->
                        Append(remoteCalls, Call("GetAgentQueues", 0, FALSE))
                   [] outcome.kind = "noDefault" ->
                        Append(remoteCalls, Call("GetAgentQueues", 0, TRUE))
                   [] OTHER ->
                        Append(Append(remoteCalls,
                                      Call("GetAgentQueues", 0, TRUE)),
                               Call("CreateDefinition", outcome.id,
                                    outcome.kind = "created"))
          /\ IF outcome.kind = "created"
             THEN /\ buildDefinition' = BuildDefinition(outcome.id)
                  /\ service' = [service EXCEPT
                                    !.definitions = @ \cup {outcome.id}]
                  /\ callRet' = NoError
             ELSE /\ callRet' = IF outcome.kind = "noDefault"
                               THEN NoDefaultQueue(projectRef.id)
                               ELSE RemoteError
                  /\ UNCHANGED <<buildDefinition, service>>
    /\ at' = "returned"
    /\ UNCHANGED <<state, osEnv, envValues, envFile, writes, asked, checks,
                   remoteUrl, details, projectRef, endpoint, logged>>
    /\ UNCHANGED <<armVars, projVars, cleanVars>>

----------------------------------------------------------------------------
(* createBuildPolicy *)

DefaultBranch == "master"

\* lines 609-617 and getBuildType: the client and the "Build" policy type
GetBuildType ==
    /\ at = "getBuildType"
    /\ \E outcome \in {"client", "failed", "none", "found"} :
          /\ remoteCalls' =
                 IF outcome = "client" THEN remoteCalls
                 ELSE Append(remoteCalls, Call("GetPolicyTypes", 0,
                                         outcome # "failed"))
          /\ IF outcome = "found"
             THEN /\ at' = "createPolicy"
                  /\ UNCHANGED callRet
             ELSE /\ at' = "returned"
                  /\ callRet' = IF outcome = "none"
                            THEN Error(<<"could not find 'Build' policy type in project">>)
                            ELSE RemoteError
    /\ UNCHANGED <<state, osEnv, envValues, envFile, writes, asked, checks,
                   remoteUrl, details, projectRef, endpoint, buildDefinition,
                   service, logged>>
    /\ UNCHANGED <<armVars, projVars, cleanVars>>

\* the policy made for the first of the definitions, whichever was created
FirstDefinitionId(definition) ==
    CHOOSE id \in DefinitionIds : \A other \in DefinitionIds : id <= other

\* line 636
PolicyBuildDefinitionId(definition) == definition.Id

\* lines 627-641
PolicySettings(definition, repoId) ==
    [buildDefinitionId |-> PolicyBuildDefinitionId(definition),
     repositoryId |-> repoId,
     refName |-> <<"refs/heads/", DefaultBranch>>]

\* line 656 takes no result of the call, and line 658 returns nil
ReturnAfterPolicy(err) == NoError

\* lines 619-658: the create call, its error dropped
CreatePolicyConfiguration ==
    /\ at = "createPolicy"
    /\ \E ok \in BOOLEAN :
          LET settings == PolicySettings(buildDefinition, details.repoName)
          IN /\ remoteCalls' = Append(remoteCalls, Call("CreatePolicyConfiguration",
                                            settings, ok))
             /\ service' = IF ok
                           THEN [service EXCEPT !.policies = @ \cup {settings}]
                           ELSE service
             /\ callRet' = ReturnAfterPolicy(IF ok THEN NoError ELSE RemoteError)
    /\ at' = "returned"
    /\ UNCHANGED <<state, osEnv, envValues, envFile, writes, asked, checks,
                   remoteUrl, details, projectRef, endpoint, buildDefinition,
                   logged>>
    /\ UNCHANGED <<armVars, projVars, cleanVars>>

----------------------------------------------------------------------------
(* The runs *)

\* the remote service before a run: one project, and nothing made for it
NoService == [projects |-> <<Project(Foo, 1)>>, endpoints |-> {},
              authorized |-> {}, definitions |-> {}, policies |-> {}]

AzureHost == <<"dev.azure.com">>
ForeignHosts == {<<"github.com">>, <<"dev.azure.com", ".", "example.org">>}
Organisations == {"fake_org", "dev.azure.com"}
ProjectNamesOfUrl == {"project1"}
Repositories == {"repo1", "app"}

\* the URLs that name organisation, project and repository
ProjectUrls(host, org, proj, repo) ==
    {HttpsWithOrg(host, org, proj, repo), HttpsProject(host, org, proj, repo),
     SshVersioned(host, org, proj, repo)}

\* the URLs of the other shapes
ShortUrls(host, org, repo) ==
    {HttpsCanonical(host, org, repo), SshShort(host, org, repo)}

IsRemoteUrl(url) ==
    \E host \in {AzureHost} \cup ForeignHosts, org \in Organisations,
       repo \in Repositories :
        \/ url \in ShortUrls(host, org, repo)
        \/ \E proj \in ProjectNamesOfUrl : url \in ProjectUrls(host, org, proj, repo)

\* env.Values as a run finds it, and the process environment
ValuesChoices ==
    {EmptyMap,
     MapSet(EmptyMap, AzDoPatName, PatValue),
     MapSet(MapSet(EmptyMap, AzDoPatName, EmptyString),
            AzDoEnvironmentOrgName, OrgValue),
     MapSet(MapSet(MapSet(EmptyMap, AzDoPatName, QuotedValue),
                   AzDoEnvironmentOrgName, OrgValue),
            AzDoEnvironmentProjectName, Foo)}

OsEnvChoices ==
    {EmptyMap,
     MapSet(EmptyMap, AzDoPatName, PatValue),
     MapSet(MapSet(EmptyMap, AzDoPatName, EmptyString),
            AzDoEnvironmentOrgName, OrgValue),
     MapSet(MapSet(EmptyMap, AzDoPatName, PatValue),
            AzDoEnvironmentOrgName, OrgValue)}

\* the run's variables before the run, but for its inputs
CfgStart ==
    /\ state = "Start"
    /\ at = "preCheckPat"
    /\ callRet = NoError
    /\ envFile = Save(envValues)
    /\ writes = <<>>
    /\ asked = 0
    /\ checks = 0
    /\ details = NotDetected
    /\ projectRef = NoProjectYet
    /\ endpoint = NoEndpoint
    /\ buildDefinition = NoBuildDefinition
    /\ service = NoService
    /\ remoteCalls = <<>>
    /\ logged = <<>>

CfgIdle ==
    /\ osEnv = EmptyMap
    /\ envValues = EmptyMap
    /\ remoteUrl = EmptyString
    /\ CfgStart

----------------------------------------------------------------------------
(* The clean command.  execute holds no await: it runs to its end when it  *)
(* is called.  Each callback forEach calls is an async function: it runs   *)
(* up to its first await, and what follows an await runs after execute     *)
(* has returned, one continuation at a time, in any order among the        *)
(* remotes.  forEach drops the promise a callback returns.                 *)

MaxRemotes == 2

\* a GitRemote of the manifest, named by its position
GitRemote(i) == [url |-> i]

\* the manifests: no remote, one, or several
Manifests == {[i \in 1..n |-> GitRemote(i)] : n \in 0..MaxRemotes}

\* what a callback caught: the step that threw, and for which remote
Failure(step, remote) == [step |-> step, remote |-> remote]
NoFailure == Failure("none", 0)

\* line 78: the string deleteRemoteBranch throws
BranchDoesNotExist == "Error deleting remote branch. Branch does not exist on remote"

\* a promise: "none" before the call that returns it, then "pending",
\* "fulfilled" or "rejected"
Promise(settled, reason) == [state |-> settled, reason |-> reason]

\* a callback: the call it awaits, its promise, and what it caught
Task(awaiting, promise, caught) ==
    [pc |-> awaiting, promise |-> promise, caught |-> caught]
NotCalledBack == Task("notCalled", Promise("none", NoFailure), NoFailure)

\* one call of console.info, console.warn or console.error
Output(level, text, remote) == [level |-> level, text |-> text, remote |-> remote]

\* the directory at outputPath: whether it exists, and the remote whose clone
\* it holds (0: none)
Directory(exists, clone) == [exists |-> exists, clone |-> clone]

\* lines 84-90
validRemotes(manifestRemotes) == Len(manifestRemotes) # 0

\* the clean command's variables before execute is called, but for its
\* inputs
CleanStart ==
    /\ execPc = "notCalled"
    /\ nextRemote = 1
    /\ tasks = [i \in DOMAIN remotes |-> NotCalledBack]
    /\ console = <<>>
    /\ executePromise = Promise("none", NoFailure)
    /\ unhandled = {}
    /\ exited = FALSE

CleanIdle ==
    /\ remotes = <<>>
    /\ failOnCleanError = FALSE
    /\ outputDir = Directory(FALSE, 0)
    /\ CleanStart

\* lines 42-48: execute is called, up to forEach
Execute ==
    /\ execPc = "notCalled"
    /\ IF ~validRemotes(remotes)
       THEN /\ console' = console \o
                   <<Output("info", "Clean Command", 0),
                     Output("warn", "Remotes manifest is missing 'remotes' configuration", 0)>>
            /\ execPc' = "returned"
            /\ executePromise' = Promise("fulfilled", NoFailure)
       ELSE /\ console' = console \o
                   <<Output("info", "Clean Command", 0),
                     Output("info", "Repo clean started...", 0)>>
            /\ execPc' = "forEach"
            /\ UNCHANGED executePromise
    /\ UNCHANGED <<remotes, failOnCleanError, nextRemote, tasks, outputDir,
                   unhandled, exited>>
    /\ UNCHANGED <<armVars, projVars, cfgVars>>

\* lines 50-52 and 67-71: forEach calls the callback for the next remote; the
\* callback runs into deleteRemoteBranch, up to the await of
\* ensureDirectoryPath, and returns its promise to forEach
ForEachCallback ==
    /\ execPc = "forEach"
    /\ nextRemote <= Len(remotes)
    /\ tasks' = [tasks EXCEPT ![nextRemote] =
                    Task("ensureDirectoryPath", Promise("pending", NoFailure),
                         NoFailure)]
    /\ nextRemote' = nextRemote + 1
    /\ UNCHANGED <<remotes, failOnCleanError, execPc, outputDir, console,
                   executePromise, unhandled, exited>>
    /\ UNCHANGED <<armVars, projVars, cfgVars>>

\* lines 61-65: forEach has called back for every remote and returns; execute
\* writes "Repo clean completed." and an empty line, and returns, its promise
\* fulfilled
ExecuteReturns ==
    /\ execPc = "forEach"
    /\ nextRemote > Len(remotes)
    /\ console' = console \o <<Output("info", "Repo clean completed.", 0),
                               Output("info", "", 0)>>
    /\ execPc' = "returned"
    /\ executePromise' = Promise("fulfilled", NoFailure)
    /\ UNCHANGED <<remotes, failOnCleanError, nextRemote, tasks, outputDir,
                   unhandled, exited>>
    /\ UNCHANGED <<armVars, projVars, cfgVars>>

\* the callback of remote i can go on after the call it awaits: the
\* synchronous run that called it has ended, and the process has not
Resumes(i, awaited) ==
    /\ execPc = "returned"
    /\ ~exited
    /\ i \in DOMAIN tasks
    /\ tasks[i].pc = awaited

\* lines 55-60: the catch of the callback of remote i
Catch(i, reason) ==
    /\ console' = Append(console, Output("error", reason.step, i))
    /\ IF failOnCleanError
       THEN /\ tasks' = [tasks EXCEPT ![i] =
                           Task("settled", Promise("rejected", reason), reason)]
            /\ unhandled' = unhandled \cup {i}
       ELSE /\ tasks' = [tasks EXCEPT ![i] =
                           Task("settled", Promise("fulfilled", NoFailure), reason)]
            /\ UNCHANGED unhandled

\* line 71 done: the directory is there and line 72 begins, or the call
\* failed
EnsureDirectoryDone(i) ==
    /\ Resumes(i, "ensureDirectoryPath")
    /\ \E ok \in BOOLEAN :
          IF ok
          THEN /\ outputDir' = Directory(TRUE, outputDir.clone)
               /\ tasks' = [tasks EXCEPT ![i].pc = "cleanDirectoryPath"]
               /\ UNCHANGED <<console, unhandled>>
          ELSE /\ Catch(i, Failure("ensureDirectoryPath", i))
               /\ UNCHANGED outputDir
    /\ UNCHANGED <<remotes, failOnCleanError, execPc, nextRemote,
                   executePromise, exited>>
    /\ UNCHANGED <<armVars, projVars, cfgVars>>

\* line 72 done: the directory is empty and lines 74-75 begin, or the call
\* failed
CleanDirectoryDone(i) ==
    /\ Resumes(i, "cleanDirectoryPath")
    /\ \E ok \in BOOLEAN :
          IF ok
          THEN /\ outputDir' = Directory(outputDir.exists, 0)
               /\ tasks' = [tasks EXCEPT ![i].pc = "clone"]
               /\ UNCHANGED <<console, unhandled>>
          ELSE /\ Catch(i, Failure("cleanDirectoryPath", i))
               /\ UNCHANGED outputDir
    /\ UNCHANGED <<remotes, failOnCleanError, execPc, nextRemote,
                   executePromise, exited>>
    /\ UNCHANGED <<armVars, projVars, cfgVars>>

\* line 75 done: the clone is in the directory, or the clone failed
CloneDone(i) ==
    /\ Resumes(i, "clone")
    /\ \E ok \in BOOLEAN :
          IF ok
          THEN /\ outputDir' = Directory(outputDir.exists, i)
               /\ tasks' = [tasks EXCEPT ![i].pc = "remoteBranchExists"]
               /\ UNCHANGED <<console, unhandled>>
          ELSE /\ Catch(i, Failure("clone", i))
               /\ UNCHANGED outputDir
    /\ UNCHANGED <<remotes, failOnCleanError, execPc, nextRemote,
                   executePromise, exited>>
    /\ UNCHANGED <<armVars, projVars, cfgVars>>

\* lines 77-80: the answer of remoteBranchExists
CheckDone(i) ==
    /\ Resumes(i, "remoteBranchExists")
    /\ \E answer \in {"exists", "missing", "failed"} :
          IF answer = "exists"
          THEN /\ tasks' = [tasks EXCEPT ![i].pc = "deleteRemoteBranch"]
               /\ UNCHANGED <<console, unhandled>>
          ELSE IF answer = "missing"
               THEN Catch(i, Failure(BranchDoesNotExist, i))
               ELSE Catch(i, Failure("remoteBranchExists", i))
    /\ UNCHANGED <<remotes, failOnCleanError, execPc, nextRemote, outputDir,
                   executePromise, exited>>
    /\ UNCHANGED <<armVars, projVars, cfgVars>>

\* lines 82-83 and 53: the branch is deleted, or the deletion failed
DeleteDone(i) ==
    /\ Resumes(i, "deleteRemoteBranch")
    /\ \E ok \in BOOLEAN :
          IF ok
          THEN /\ console' = Append(console,
                      Output("info", "Branch has been deleted from remote", i))
               /\ tasks' = [tasks EXCEPT ![i] =
                      Task("settled", Promise("fulfilled", NoFailure), NoFailure)]
               /\ UNCHANGED unhandled
          ELSE Catch(i, Failure("deleteRemoteBranch", i))
    /\ UNCHANGED <<remotes, failOnCleanError, execPc, nextRemote, outputDir,
                   executePromise, exited>>
    /\ UNCHANGED <<armVars, projVars, cfgVars>>

\* line 58 in a callback whose promise nothing holds: the rejection is not
\* handled, and the runtime may end the process on it
UnhandledRejectionExits ==
    /\ unhandled # {}
    /\ ~exited
    /\ exited' = TRUE
    /\ UNCHANGED <<remotes, failOnCleanError, execPc, nextRemote, tasks,
                   outputDir, console, executePromise, unhandled>>
    /\ UNCHANGED <<armVars, projVars, cfgVars>>

----------------------------------------------------------------------------
(* The specifications of the project creation *)

\* the project variables before getAzdoProjectFromNew is called
ProjIdle(listed) ==
    /\ pc = "prompt"
    /\ name = EmptyString
    /\ count = 0
    /\ projectCreated = FALSE
    /\ created = NotReturned
    /\ result = Running
    /\ projects = listed
    /\ cancelled = FALSE
    /\ prompts = 0
    /\ attempts = <<>>
    /\ polls = 0
    /\ succeededPoll = 0
    /\ lookups = 0

ArmIdle ==
    /\ azure = Remote(FALSE, <<>>, Missing, Missing, FALSE, <<>>)
    /\ last = [op |-> "none", ret |-> Returned(TRUE, <<>>, FALSE, <<>>)]
    /\ prev = last

ProjInit ==
    /\ ArmIdle
    /\ CfgIdle
    /\ CleanIdle
    /\ \E listed \in {<<>>, <<Project(Foo, 1)>>, <<Project(Foo2, 1)>>,
                      <<Project(Foo, 1), Project(Foo2, 2)>>} :
           ProjIdle(listed)

ProgramStep ==
    \/ Prompt
    \/ CreateProjectSetup
    \/ QueueCreateProject
    \/ PollOperation
    \/ CheckCeiling
    \/ SleepReturns
    \/ LookupProject
    \/ HandleCreated

ProjNext == ProgramStep \/ Cancel

SpecProject == ProjInit /\ [][ProjNext]_vars

\* the program's steps are taken as long as one is enabled
SpecProjectFair == SpecProject /\ WF_vars(ProgramStep)

----------------------------------------------------------------------------
(* The configuration runs *)

CfgInit ==
    /\ ArmIdle
    /\ ProjIdle(<<>>)
    /\ CleanIdle
    /\ osEnv \in OsEnvChoices
    /\ envValues \in ValuesChoices
    /\ \E host \in {AzureHost} \cup ForeignHosts, org \in Organisations,
          repo \in Repositories :
           \/ remoteUrl \in ShortUrls(host, org, repo)
           \/ \E proj \in ProjectNamesOfUrl :
                  remoteUrl \in ProjectUrls(host, org, proj, repo)
    /\ CfgStart

CfgNext ==
    \/ Transition
    \/ CheckAgain
    \/ PreCheckPat
    \/ PreCheckOrg
    \/ GitRepoDetails
    \/ ResolveProject
    \/ ResolveExistingProject
    \/ SaveProjectName
    \/ SaveProjectId
    \/ CreateServiceEndpoint
    \/ AuthorizeServiceConnection
    \/ CreatePipeline
    \/ GetBuildType
    \/ CreatePolicyConfiguration

SpecPipeline == CfgInit /\ [][CfgNext]_vars

----------------------------------------------------------------------------
(* The specification of the environment's writes: saveEnvironmentConfig     *)
(* called on a provider whose environment is empty or holds the            *)
(* credentials and the repository's name, then a run of that provider.     *)

EnvInit ==
    /\ ArmIdle
    /\ ProjIdle(<<>>)
    /\ CleanIdle
    /\ osEnv = EmptyMap
    /\ envValues \in {EmptyMap,
                      MapSet(MapSet(MapSet(EmptyMap, AzDoPatName, QuotedValue),
                                    AzDoEnvironmentOrgName, OrgValue),
                             AzDoEnvironmentRepoName, RepoValue)}
    /\ remoteUrl = HttpsProject(AzureHost, "fake_org", "project1", "repo1")
    /\ CfgStart

EnvNext ==
    \/ SaveEnvironmentConfig
    \/ CfgNext

SpecEnvironment == EnvInit /\ [][EnvNext]_vars

----------------------------------------------------------------------------
(* The specification of the clean command: one call of execute, for every  *)
(* manifest, with and without failOnCleanError, the output directory there *)
(* or not.                                                                 *)

CleanInit ==
    /\ ArmIdle
    /\ ProjIdle(<<>>)
    /\ CfgIdle
    /\ remotes \in Manifests
    /\ failOnCleanError \in BOOLEAN
    /\ \E exists \in BOOLEAN : outputDir = Directory(exists, 0)
    /\ CleanStart

CleanNext ==
    \/ Execute
    \/ ForEachCallback
    \/ ExecuteReturns
    \/ \E i \in DOMAIN remotes : EnsureDirectoryDone(i)
    \/ \E i \in DOMAIN remotes : CleanDirectoryDone(i)
    \/ \E i \in DOMAIN remotes : CloneDone(i)
    \/ \E i \in DOMAIN remotes : CheckDone(i)
    \/ \E i \in DOMAIN remotes : DeleteDone(i)
    \/ UnhandledRejectionExits

SpecClean == CleanInit /\ [][CleanNext]_vars

----------------------------------------------------------------------------
(* The resolver's state machine: either operation, any number of times *)

NotCalled == [op |-> "none", ret |-> Returned(TRUE, <<>>, FALSE, <<>>)]

ArmInit ==
    /\ IsRemoteState(azure)
    /\ last = NotCalled
    /\ prev = NotCalled
    /\ ProjIdle(<<>>)
    /\ CfgIdle
    /\ CleanIdle

CallGetDeploymentResourceOperations ==
    /\ last' = [op |-> "GetDeploymentResourceOperations",
                ret |-> GetDeploymentResourceOperations(azure)]
    /\ prev' = last
    /\ UNCHANGED azure
    /\ UNCHANGED <<projVars, cfgVars, cleanVars>>

CallGetResourceGroupsForDeployment ==
    /\ \E ret \in GetResourceGroupsForDeployment(azure) :
           last' = [op |-> "GetResourceGroupsForDeployment", ret |-> ret]
    /\ prev' = last
    /\ UNCHANGED azure
    /\ UNCHANGED <<projVars, cfgVars, cleanVars>>

ArmNext ==
    \/ CallGetDeploymentResourceOperations
    \/ CallGetResourceGroupsForDeployment

SpecArm == ArmInit /\ [][ArmNext]_vars

----------------------------------------------------------------------------
(* The resolver's claims *)

OpsCalled == last.op = "GetDeploymentResourceOperations"
GroupsCalled == last.op = "GetResourceGroupsForDeployment"

Range(f) == {f[i] : i \in DOMAIN f}

\* every character of s is white space
IsBlank(s) == \A i \in DOMAIN s : s[i] \in Whitespace

TargetsResourceGroup(o) == o.ResourceType = AzureResourceTypeResourceGroup
TargetsDeployment(o) == o.ResourceType = AzureResourceTypeDeployment
IsCreateOfSomeType(o) ==
    o.ProvisioningOperation = "Create" /\ ~IsBlank(o.ResourceType)

\* the name of the first subscription level operation on a resource group
FirstResourceGroup(subOps) ==
    LET indices == {i \in DOMAIN subOps : TargetsResourceGroup(subOps[i])}
    IN subOps[CHOOSE i \in indices : \A j \in indices : i <= j].ResourceName

\* The depth-first pre-order of a list of operations of resource group rg:
\* what its first operation contributes (the pre-order of the deployment it
\* names, or itself when it is a Create of some type, or nothing), then the
\* pre-order of the operations after it.
RECURSIVE PreOrder(_, _, _)
PreOrder(az, rg, ops) ==
    IF ops = <<>> THEN <<>>
    ELSE LET o == Head(ops)
             contributed ==
                 IF TargetsDeployment(o)
                 THEN PreOrder(az, rg, az.rgDeployments[<<rg, o.ResourceName>>])
                 ELSE IF IsCreateOfSomeType(o) THEN <<o>> ELSE <<>>
         IN contributed \o PreOrder(az, rg, Tail(ops))

\* C1: when the subscription level operations include a resource group
\* operation and no listing fails, GetDeploymentResourceOperations returns
\* the depth-first pre-order of the nested deployments the subscription
\* level operations reference, in the scope of the first resource group
\* operation (nothing when that name is blank): what a nested deployment
\* contributes stands where the operation referencing it is visited, before
\* anything a later sibling contributes.
C1_PreOrder ==
    (/\ OpsCalled
     /\ ~last.ret.err
     /\ \E i \in DOMAIN azure.subOps : TargetsResourceGroup(azure.subOps[i]))
    => last.ret.value =
          IF IsBlank(FirstResourceGroup(azure.subOps)) THEN <<>>
          ELSE PreOrder(azure, FirstResourceGroup(azure.subOps),
                        SelectSeq(azure.subOps, TargetsDeployment))

\* a tree two levels deep whose grandchild is referenced before a sibling
C1_Witness ==
    /\ OpsCalled
    /\ ~last.ret.err
    /\ azure.subOps = <<OpRgApp, OpDeployChild, OpDeployChild>>
    /\ <<RgApp, D1Child>> \in DOMAIN azure.rgDeployments
    /\ azure.rgDeployments[<<RgApp, D1Child>>] = <<OpDeployGrandchild, OpStorageCreate>>
    /\ last.ret.value =
           <<OpVaultCreate, OpStorageCreate, OpVaultCreate, OpStorageCreate>>

NoNestedAtTop ==
    /\ ~azure.subErr
    /\ \A i \in DOMAIN azure.subOps : ~TargetsDeployment(azure.subOps[i])

\* C2 as claimed: when no subscription level operation targets a nested
\* deployment, GetDeploymentResourceOperations returns the subscription
\* level operations that are a Create of a non-empty type, in listing order.
C2_Original ==
    (OpsCalled /\ NoNestedAtTop)
    => /\ ~last.ret.err
       /\ last.ret.value = SelectSeq(azure.subOps, IsCreateOfSomeType)

\* C2, amended: when no subscription level operation targets a nested
\* deployment, GetDeploymentResourceOperations returns an empty list and no
\* error; subscription level operations are never collected themselves.
C2_TopLevelNotCollected ==
    (OpsCalled /\ NoNestedAtTop)
    => /\ ~last.ret.err
       /\ ~last.ret.nil
       /\ last.ret.value = <<>>

C2_Witness ==
    /\ OpsCalled
    /\ azure.subOps = <<OpRgApp, OpStorageCreate>>
    /\ ~azure.subErr
    /\ last.ret.value = <<>>
    /\ ~last.ret.err

\* the scenario as the claim words it: D1's one operation targets D1-child
ScenarioAsClaimed ==
    Remote(FALSE, <<OpDeployChild>>, ScenarioChild, ScenarioGrandchild,
           FALSE, ScenarioDependencies)

ScenarioResults ==
    /\ OpsCalled =>
          /\ ~last.ret.err
          /\ last.ret.value = <<OpStorageCreate, OpVaultCreate>>
    /\ GroupsCalled =>
          /\ ~last.ret.err
          /\ Range(last.ret.value) = {RgApp}
          /\ Len(last.ret.value) = 1

\* C3 as claimed: in the scenario (D1: a dependency on rg-app and an
\* operation targeting D1-child; D1-child: Create storage account, then
\* D1-grandchild; D1-grandchild: Create key vault) the operations returned
\* are [storage account, key vault] and the resource groups {rg-app}.
C3_Original == azure = ScenarioAsClaimed => ScenarioResults

\* C3, amended: the same, when D1's operations also include, first, an
\* operation on resource group rg-app.
C3_Scenario == azure = Scenario => ScenarioResults

C3_Witness ==
    /\ azure = Scenario
    /\ prev.op = "GetDeploymentResourceOperations"
    /\ prev.ret.value = <<OpStorageCreate, OpVaultCreate>>
    /\ GroupsCalled
    /\ last.ret.value = <<RgApp>>

NoScope ==
    /\ ~azure.subErr
    /\ \/ \A i \in DOMAIN azure.subOps : ~TargetsResourceGroup(azure.subOps[i])
       \/ IsBlank(FirstResourceGroup(azure.subOps))

\* C4: when no subscription level operation targets a resource group, or the
\* first that does has a blank name, GetDeploymentResourceOperations returns
\* an empty list and no error, and lists no nested deployment.
C4_NoScopeEmpty ==
    (OpsCalled /\ NoScope)
    => /\ ~last.ret.err
       /\ ~last.ret.nil
       /\ last.ret.value = <<>>
       /\ \A i \in DOMAIN last.ret.calls :
              last.ret.calls[i].call # "ListResourceGroupDeploymentOperations"

\* a blank first resource group, with a nested deployment and a later named
\* resource group among the operations
C4_Witness ==
    /\ OpsCalled
    /\ azure.subOps = <<OpRgBlank, OpDeployChild, OpRgApp>>
    /\ last.ret.value = <<>>
    /\ ~last.ret.err
    /\ Len(last.ret.calls) = 1

\* the names the subscription deployment depends on as resource groups
ResourceGroupTargets ==
    {azure.dependencies[i][j].ResourceName :
        <<i, j>> \in {<<a, b>> \in (DOMAIN azure.dependencies) \X (1..MaxDependsOn + 1) :
                        /\ b \in DOMAIN azure.dependencies[a]
                        /\ TargetsResourceGroup(azure.dependencies[a][b])}}

\* C5: GetResourceGroupsForDeployment returns each name that is the target
\* of a resource group dependency exactly once, and no other name.
C5_DistinctResourceGroups ==
    (GroupsCalled /\ ~azure.depErr)
    => /\ ~last.ret.err
       /\ \A target \in ResourceGroupTargets :
              Cardinality({i \in DOMAIN last.ret.value :
                              last.ret.value[i] = target}) = 1
       /\ \A i \in DOMAIN last.ret.value :
              last.ret.value[i] \in ResourceGroupTargets

\* two edges to rg-app, one to another resource group, one to a storage
\* account: two names are returned
C5_Witness ==
    /\ GroupsCalled
    /\ azure.dependencies =
           <<<<Dependent(AzureResourceTypeResourceGroup, RgApp),
               Dependent(StorageAccountType, StorageName)>>,
             <<Dependent(AzureResourceTypeResourceGroup, RgOther),
               Dependent(AzureResourceTypeResourceGroup, RgApp)>>>>
    /\ last.ret.value = <<RgOther, RgApp>>

\* the nested listings a GetDeploymentResourceOperations call issued
NestedListings ==
    {i \in DOMAIN last.ret.calls :
        last.ret.calls[i].call = "ListResourceGroupDeploymentOperations"}

\* C21: within one GetDeploymentResourceOperations call every listing of a
\* nested deployment, at every depth, is scoped to the name of the first
\* subscription level operation that targets a resource group; a later
\* resource group operation does not change the scope.
C21_OneScope ==
    OpsCalled
    => \A i \in NestedListings :
           /\ \E j \in DOMAIN azure.subOps : TargetsResourceGroup(azure.subOps[j])
           /\ last.ret.calls[i].resourceGroupName =
                  FirstResourceGroup(azure.subOps)

\* a second resource group operation before the nested deployment, and
\* listings at two depths
C21_Witness ==
    /\ OpsCalled
    /\ azure.subOps = <<OpRgApp, OpRgOther, OpDeployChild>>
    /\ \E i, j \in NestedListings :
           /\ i < j
           /\ last.ret.calls[i].deploymentName = D1Child
           /\ last.ret.calls[j].deploymentName = D1Grandchild
           /\ last.ret.calls[j].resourceGroupName = RgApp
    /\ OpVaultCreate \in Range(last.ret.value)

\* the operations of the nested deployments a call listed
ListedOperations ==
    UNION {Range(azure.rgDeployments[<<last.ret.calls[i].resourceGroupName,
                                       last.ret.calls[i].deploymentName>>]) :
              i \in {k \in NestedListings :
                        <<last.ret.calls[k].resourceGroupName,
                          last.ret.calls[k].deploymentName>>
                            \in DOMAIN azure.rgDeployments}}

\* C22: every operation GetDeploymentResourceOperations returns has the
\* provisioning action "Create" and a target type that is not blank, and
\* does not target a deployment; a listed operation that targets a nested
\* deployment has that deployment listed, whatever its provisioning action.
C22_OnlyCreatedResources ==
    OpsCalled
    => /\ \A i \in DOMAIN last.ret.value :
              /\ last.ret.value[i].ProvisioningOperation = "Create"
              /\ ~IsBlank(last.ret.value[i].ResourceType)
              /\ ~TargetsDeployment(last.ret.value[i])
       /\ ~last.ret.err
              => \A o \in ListedOperations :
                     TargetsDeployment(o)
                     => \E i \in NestedListings :
                            last.ret.calls[i].deploymentName = o.ResourceName

\* a nested deployment referenced by a "Read" operation, holding a "Read", a
\* blank type, an empty type and one resource "Create"
C22_Witness ==
    /\ OpsCalled
    /\ ~last.ret.err
    /\ <<RgApp, D1Child>> \in DOMAIN azure.rgDeployments
    /\ azure.rgDeployments[<<RgApp, D1Child>>] =
           <<OpDeployGrandchildRead, OpStorageRead>>
    /\ <<RgApp, D1Grandchild>> \in DOMAIN azure.rgDeployments
    /\ azure.rgDeployments[<<RgApp, D1Grandchild>>] =
           <<OpVaultRead, OpBlankTypeCreate, OpNoTypeCreate, OpVaultCreate>>
    /\ last.ret.value = <<OpVaultCreate>>

\* a listing the call issued failed
ListingFailed ==
    \/ azure.subErr
    \/ \E i \in NestedListings :
           <<last.ret.calls[i].resourceGroupName,
             last.ret.calls[i].deploymentName>> \notin DOMAIN azure.rgDeployments

\* C25: when a listing fails, the subscription level one or that of a nested
\* deployment at any depth, GetDeploymentResourceOperations returns an error
\* and a nil list: nothing of what it had collected is returned.
C25_FailureReturnsNothing ==
    (OpsCalled /\ ListingFailed)
    => /\ last.ret.err
       /\ last.ret.nil
       /\ last.ret.value = <<>>

\* the listing of the grandchild fails after the child's storage account
\* was collected
C25_Witness ==
    /\ OpsCalled
    /\ azure.subOps = <<OpRgApp, OpDeployChild>>
    /\ <<RgApp, D1Child>> \in DOMAIN azure.rgDeployments
    /\ azure.rgDeployments[<<RgApp, D1Child>>] =
           <<OpStorageCreate, OpDeployGrandchild>>
    /\ <<RgApp, D1Grandchild>> \notin DOMAIN azure.rgDeployments
    /\ Len(last.ret.calls) = 3
    /\ last.ret.err

----------------------------------------------------------------------------
(* The project creation's claims *)

InPollingLoop == pc \in {"poll", "check", "sleeping"}

CeilingError(n) == Error(<<"error creating azure devops project ">> \o n)

\* C7: when none of the polls up to the attempt ceiling reported
\* "succeeded", createProject returns an error and no project, and has not
\* looked the project up; and the polling loop, once entered, is left.
C7_NoSuccessNoProject ==
    /\ []((pc = "returned" /\ succeededPoll \notin 1..maxCheck)
            => /\ created.err.isErr
               /\ created.project.nil
               /\ lookups = 0)
    /\ (InPollingLoop ~> ~InPollingLoop)

\* the ceiling exhausted without a poll reporting "succeeded"
C7_Witness ==
    /\ pc = "returned"
    /\ succeededPoll = 0
    /\ polls > maxCheck
    /\ created = CreateReturn(NoProject, CeilingError(name))

\* C8: createProject polls the operation's status at most 10 times, the
\* attempt ceiling, for one creation request.
C8_AtMostCeilingPolls == polls <= maxCheck

\* C9: once the context is done while the loop is polling or waiting,
\* createProject performs no further attempt and no further wait: it neither
\* completes another poll nor begins another time.Sleep.
C9_Cancellable ==
    [][(cancelled /\ InPollingLoop)
         => /\ ~(pc = "poll" /\ pc' = "check")
            /\ ~(pc = "check" /\ pc' = "sleeping")]_vars

FirstConflictsSecondAccepted ==
    /\ Len(attempts) >= 2
    /\ attempts[1].ret.err = AlreadyExistsError(attempts[1].name)
    /\ ~attempts[2].ret.err.isErr

\* C10: when the creation attempt for the first prompted name fails with
\* the remote "project already exists" error and the attempt for the next
\* prompted name succeeds, getAzdoProjectFromNew makes no further attempt
\* and returns, with no error, the second name and the id of the remote
\* project of that name.
C10_SecondNameReturned ==
    FirstConflictsSecondAccepted
    => /\ Len(attempts) = 2
       /\ pc \in {"returned", "done"}
       /\ pc = "done"
            => /\ result.err = NoError
               /\ result.name = attempts[2].name
               /\ \E i \in DOMAIN projects :
                      /\ projects[i].Name = attempts[2].name
                      /\ projects[i].Id = result.id

\* "foo" exists, "foo2" is created
C10_Witness ==
    /\ pc = "done"
    /\ Len(attempts) = 2
    /\ attempts[1] = [name |-> Foo,
                      ret |-> CreateReturn(NoProject, AlreadyExistsError(Foo))]
    /\ attempts[2] = [name |-> Foo2,
                      ret |-> CreateReturn(Project(Foo2, 2), NoError)]
    /\ result = NewReturn(Foo2, 2, NoError)

\* the two failures of the remote service that the name is the cause of
IsNameFailure(err, n) ==
    err \in {AlreadyExistsError(n), NotValidError(n)}

PromptFailed ==
    NewReturn(EmptyString, 0,
              Wrap("asking for new project name: ", Error(<<"no answer">>)))

LastAttempt == attempts[Len(attempts)]

\* C11: after a creation attempt that failed with the remote service's
\* already-exists or not-valid error, getAzdoProjectFromNew does not return:
\* its next step is the prompt, and the prompt's answer is the name of the
\* next createProject call; the only return after such a failure is that of
\* a prompt that was not answered, however many such failures came before.
C11_NameFailureReprompts ==
    /\ [][(pc = "returned" /\ IsNameFailure(created.err, name) /\ pc' # pc)
            => (pc' = "prompt" /\ result' = Running)]_vars
    /\ [][(pc = "prompt" /\ attempts # <<>> /\ pc' # pc)
            => \/ pc' = "setup" /\ name' \in PromptNames /\ result' = Running
               \/ pc' = "done" /\ result' = PromptFailed]_vars
    /\ []((pc = "done" /\ attempts # <<>>
              /\ IsNameFailure(LastAttempt.ret.err, LastAttempt.name))
            => result = PromptFailed)

\* after an already-exists and a not-valid failure, a third attempt is made
C11_Witness ==
    /\ pc = "setup"
    /\ Len(attempts) = 2
    /\ attempts[1].ret.err = AlreadyExistsError(attempts[1].name)
    /\ attempts[2].ret.err = NotValidError(attempts[2].name)
    /\ name = Foo2

\* C12: a creation attempt that fails with an error other than those two is
\* the last one: no prompt and no attempt follows it, and
\* getAzdoProjectFromNew returns that error.
C12_OtherFailureReturned ==
    \A i \in DOMAIN attempts :
        (attempts[i].ret.err.isErr
            /\ ~IsNameFailure(attempts[i].ret.err, attempts[i].name))
        => /\ i = Len(attempts)
           /\ pc \in {"returned", "done"}
           /\ pc = "done"
                => result = NewReturn(EmptyString, 0,
                                Wrap("creating project: ", attempts[i].ret.err))

\* C24: when a poll of createProject observed the status "succeeded",
\* createProject does not return the attempt ceiling's "error creating azure
\* devops project" failure: it polls no more and looks the project up by
\* name.
C24_SuccessIsNotCeilingFailure ==
    (pc = "returned" /\ succeededPoll > 0)
    => /\ created.err # CeilingError(name)
       /\ polls = succeededPoll
       /\ lookups = 1

----------------------------------------------------------------------------
(* The configuration run's claims *)

CallsOf(call) == {i \in DOMAIN remoteCalls : remoteCalls[i].call = call}

\* C13: every AuthorizeProjectResources call comes after a
\* CreateServiceEndpoint call that succeeded, and is for the endpoint that
\* call returned; after a failed create call createServiceConnection has
\* returned the error and no authorization call is made.
C13_AuthorizeAfterCreate ==
    /\ \A i \in CallsOf("AuthorizeProjectResources") :
           \E j \in CallsOf("CreateServiceEndpoint") :
               /\ j < i
               /\ remoteCalls[j].ok
               /\ remoteCalls[j].arg = remoteCalls[i].arg
    /\ (\E j \in CallsOf("CreateServiceEndpoint") : ~remoteCalls[j].ok)
           => /\ CallsOf("AuthorizeProjectResources") = {}
              /\ callRet = RemoteError
              /\ state = "ProjectResolved"
              /\ at \in {"returned", "halted"}

\* endpoint 2 was created and then authorized
C13_Witness ==
    /\ state = "ServiceConnectionReady"
    /\ endpoint = 2
    /\ \E i \in CallsOf("AuthorizeProjectResources") :
           remoteCalls[i].ok /\ remoteCalls[i].arg = 2
    /\ 2 \in service.authorized

AuthorizationFailed ==
    \E i \in CallsOf("AuthorizeProjectResources") : ~remoteCalls[i].ok

\* C14: when the endpoint was created and its authorization failed,
\* createServiceConnection returns no error, no call deletes the endpoint,
\* and the failure is logged.
C14_AuthorizationFailureLogged ==
    (AuthorizationFailed /\ state = "ProjectResolved" /\ at = "returned")
        => /\ callRet = NoError
           /\ CallsOf("DeleteServiceEndpoint") = {}
           /\ endpoint \in service.endpoints
           /\ logged # <<>>

PolicyCallFailed ==
    \E i \in CallsOf("CreatePolicyConfiguration") : ~remoteCalls[i].ok

\* C15: when the CreatePolicyConfiguration call fails, createBuildPolicy
\* returns the error, and the run halts in the state PipelineCreated.
C15_PolicyErrorReturned ==
    PolicyCallFailed
        => /\ state = "PipelineCreated"
           /\ at \in {"returned", "halted"}
           /\ callRet = RemoteError

\* C16: a run's state only ever moves to the next of Start,
\* CredentialsVerified, RepositoryResolved, ProjectResolved,
\* ServiceConnectionReady, PipelineCreated, PolicyApplied, Done; and every
\* CreatePolicyConfiguration call comes after a CreateDefinition call that
\* succeeded, and names the id of the definition that call returned.
C16_StatesInOrder ==
    /\ [][state' # state => Rank(state') = Rank(state) + 1]_vars
    /\ [](\A i \in CallsOf("CreatePolicyConfiguration") :
             \E j \in CallsOf("CreateDefinition") :
                 /\ j < i
                 /\ remoteCalls[j].ok
                 /\ remoteCalls[i].arg.buildDefinitionId = remoteCalls[j].arg)
    /\ [](Rank(state) >= Rank("PolicyApplied")
             => CallsOf("CreatePolicyConfiguration") # {})

\* a run that is done, its policy on definition 2
C16_Witness ==
    /\ state = "Done"
    /\ buildDefinition = BuildDefinition(2)
    /\ \E policy \in service.policies : policy.buildDefinitionId = 2

\* gitRepoDetails has returned
DetailsReturned ==
    \/ Rank(state) > Rank("CredentialsVerified")
    \/ state = "CredentialsVerified" /\ at \in {"returned", "halted"}

\* C17: for a URL of any shape that names an organisation, a project and a
\* repository on the Azure DevOps host, gitRepoDetails returns no error, the
\* organisation as the owner, the repository as the repository name, and
\* that no push is needed.
C17_SameOwnerAndRepo ==
    \A org \in Organisations, proj \in ProjectNamesOfUrl, repo \in Repositories :
        (remoteUrl \in ProjectUrls(AzureHost, org, proj, repo) /\ DetailsReturned)
            => details = Details(<<org>>, <<repo>>, FALSE)

\* the SSH URL of fake_org/project1/repo1
C17_Witness ==
    /\ remoteUrl = <<"git@", "ssh", ".", "dev.azure.com", ":", "v3", "/",
                     "fake_org", "/", "project1", "/", "repo1">>
    /\ DetailsReturned
    /\ details.owner = <<"fake_org">>
    /\ details.repoName = <<"repo1">>

IsForeignUrl(url) ==
    \E host \in ForeignHosts, org \in Organisations, repo \in Repositories :
        \/ url \in ShortUrls(host, org, repo)
        \/ \E proj \in ProjectNamesOfUrl : url \in ProjectUrls(host, org, proj, repo)

\* C18: for a URL, HTTPS or SSH, of another host, gitRepoDetails returns
\* ErrRemoteHostIsNotAzDo and nil details.
C18_ForeignHostRejected ==
    (IsForeignUrl(remoteUrl) /\ DetailsReturned)
        => /\ details = NoDetails(ErrRemoteHostIsNotAzDo)
           /\ details.nil
           /\ callRet = ErrRemoteHostIsNotAzDo
           /\ state = "CredentialsVerified"

\* the HTTPS URL of a GitHub repository
C18_Witness ==
    /\ remoteUrl = <<"https://", "github.com", "/", "fake_org", "/", "app", ".git">>
    /\ at = "halted"
    /\ details.nil
    /\ callRet = ErrRemoteHostIsNotAzDo

\* the key has a value that is not empty, in env.Values or in the process
\* environment
Present(key) ==
    \/ MapGet(envValues, key) # EmptyString
    \/ key \in DOMAIN osEnv /\ osEnv[key] # EmptyString

InPreConfigureCheck == at \in {"preCheckPat", "preCheckOrg"}

\* C19: with the token and the organisation name present, no step of
\* preConfigureCheck prompts, saves or returns an error, in any of its calls;
\* and no step of it changes a value of env.Values that is not empty.
C19_NoPromptNoWrite ==
    /\ [][(InPreConfigureCheck /\ Present(AzDoPatName)
              /\ Present(AzDoEnvironmentOrgName))
            => /\ asked' = asked
               /\ writes' = writes
               /\ envValues' = envValues
               /\ envFile' = envFile
               /\ ~callRet'.isErr]_vars
    /\ [][InPreConfigureCheck
            => \A key \in DOMAIN envValues :
                   envValues[key] # EmptyString
                       => MapGet(envValues', key) = envValues[key]]_vars

\* two calls, the token in the process environment only
C19_Witness ==
    /\ checks = 2
    /\ asked = 0
    /\ writes = <<>>
    /\ MapGet(envValues, AzDoPatName) = EmptyString
    /\ Present(AzDoPatName)

\* C20: a saveEnvironmentConfig(key, value) call leaves env.Values with
\* value for key, whether or not the key had a value, and with the value it
\* had for every other key; the file read back gives env.Values, and so
\* value for key, and for every other key of the file as it was the value
\* the file had for it, and no further key.
C20_MergeWrite ==
    [][writes' # writes
         => LET written == writes'[Len(writes')]
                before == FromFile(envFile)
                after == FromFile(envFile')
            IN /\ DOMAIN envValues' = DOMAIN envValues \cup {written.key}
               /\ envValues'[written.key] = written.value
               /\ \A key \in DOMAIN envValues \ {written.key} :
                      envValues'[key] = envValues[key]
               /\ after = envValues'
               /\ written.key \in DOMAIN after
               /\ after[written.key] = written.value
               /\ DOMAIN after = DOMAIN before \cup {written.key}
               /\ \A key \in DOMAIN before \ {written.key} :
                      after[key] = before[key]]_vars

\* the project's name saved before the run, then the key and value of the
\* test, then the name the run resolved saved over the first; the file reads
\* back with the later name, the test's value, and the token and the
\* repository's name it held
C20_Witness ==
    /\ Len(writes) = 3
    /\ writes[1] = [key |-> AzDoEnvironmentProjectName, value |-> BackslashValue]
    /\ writes[2] = [key |-> TestKey, value |-> TestValue]
    /\ writes[3] = [key |-> AzDoEnvironmentProjectName, value |-> Foo2]
    /\ Len(envFile) = 5
    /\ envFile[5] = Line(TestKey, TestValue)
    /\ FromFile(envFile)[AzDoEnvironmentProjectName] = Foo2
    /\ FromFile(envFile)[TestKey] = TestValue
    /\ FromFile(envFile)[AzDoPatName] = QuotedValue
    /\ FromFile(envFile)[AzDoEnvironmentRepoName] = RepoValue

\* the keys preConfigureCheck looks up
CredentialKeys == {AzDoPatName, AzDoEnvironmentOrgName}

Persisted(key) == key \in DOMAIN envValues /\ envValues[key] # EmptyString
InProcess(key) == key \in DOMAIN osEnv /\ osEnv[key] # EmptyString

\* C23: ensureAzdoConfigExists returns the value env.Values holds for the
\* key when that value is not empty; otherwise the process environment's
\* variable of that name when it is set and not empty; it returns an error
\* exactly when neither is there.  It changes neither env.Values nor the
\* environment file: a step of preConfigureCheck that takes the value it
\* found leaves both as they were.
C23_PersistedThenProcess ==
    /\ [](\A key \in CredentialKeys :
            LET found == ensureAzdoConfigExists(envValues, osEnv, key, "value")
            IN /\ Persisted(key)
                      => found.value = envValues[key] /\ ~found.err.isErr
               /\ (~Persisted(key) /\ InProcess(key))
                      => found.value = osEnv[key] /\ ~found.err.isErr
               /\ found.err.isErr <=> (~Persisted(key) /\ ~InProcess(key)))
    /\ [][(InPreConfigureCheck /\ asked' = asked)
            => envValues' = envValues /\ envFile' = envFile]_vars

\* the token held, with different values, by env.Values and by the process
\* environment; both lookups done and nothing asked
C23_Witness ==
    /\ Persisted(AzDoPatName)
    /\ InProcess(AzDoPatName)
    /\ envValues[AzDoPatName] # osEnv[AzDoPatName]
    /\ checks = 1
    /\ asked = 0
    /\ writes = <<>>

----------------------------------------------------------------------------
(* The clean command's claims *)

Completed ==
    \E k \in DOMAIN console : console[k].text = "Repo clean completed."

\* C26: with failOnCleanError set, when a git step of a remote failed or
\* the branch is not on that remote, the promise execute returned is
\* rejected with that error; and execute does not write "Repo clean
\* completed." nor settle its promise before every remote's callback has
\* settled.
C26_FailureRejectsExecute ==
    /\ \A i \in DOMAIN tasks :
           (failOnCleanError /\ tasks[i].caught # NoFailure)
               => executePromise = Promise("rejected", tasks[i].caught)
    /\ (Completed \/ executePromise.state \in {"fulfilled", "rejected"})
           => \A i \in DOMAIN tasks : tasks[i].pc = "settled"

\* C27: between the clone of a remote and the deletion of its branch the
\* output directory holds that remote's clone: the callback of no other
\* remote has cleaned the directory or cloned into it.
C27_NoInterleaving ==
    \A i \in DOMAIN tasks :
        tasks[i].pc \in {"remoteBranchExists", "deleteRemoteBranch"}
            => outputDir.clone = i

====
